---- MODULE Spec2Model ----
(***************************************************************************)
(* Model of the encoder repository.                                        *)
(*                                                                         *)
(*  - src/script.js          : QuantumLayeredEncoder, the keyed layered    *)
(*                             byte cipher with its hex frame and checksum *)
(*  - src/unnamed/part_000   : DetectionEngine / detectAndDecode, the      *)
(*                             multi-scheme decode detection scan          *)
(*                                                                         *)
(* Text is a sequence of UTF-16 code units (naturals), as a JavaScript     *)
(* string is; byte arrays are sequences of integers.  JavaScript arrays    *)
(* are 0-based, TLA+ sequences 1-based: a[i] in the code is a[i+1] here.   *)
(***************************************************************************)
EXTENDS Integers, Sequences, FiniteSets, TLC

(***************************************************************************)
(* Bounds of the model.                                                    *)
(***************************************************************************)
\* longest plaintext (in code units) handed to the cipher's encode
MaxTextLen == 2

(***************************************************************************)
(* Character codes used below.                                             *)
(***************************************************************************)
DOT == 46
EQUALS == 61
\* the value JavaScript calls undefined / null (an absent argument)
Undefined == <<-1>>
\* a hole of a JavaScript array (reads as undefined)
Hole == -1

Min(a, b) == IF a < b THEN a ELSE b

RECURSIVE Pow(_, _)
Pow(b, n) == IF n = 0 THEN 1 ELSE b * Pow(b, n - 1)

\* a ^ b on the low n bits of two non-negative integers
RECURSIVE BitXor(_, _, _)
BitXor(a, b, n) ==
    IF n = 0 THEN 0
    ELSE (((a % 2) + (b % 2)) % 2) + 2 * BitXor(a \div 2, b \div 2, n - 1)

\* a | b on the low n bits of two non-negative integers
RECURSIVE BitOr(_, _, _)
BitOr(a, b, n) ==
    IF n = 0 THEN 0
    ELSE (IF a % 2 = 1 \/ b % 2 = 1 THEN 1 ELSE 0)
         + 2 * BitOr(a \div 2, b \div 2, n - 1)

\* s.substr(i, n) / s.substring(i, i+n) with i 0-based, clipped to the text
Substr(s, i, n) == SubSeq(s, i + 1, Min(Len(s), i + n))

RECURSIVE Concat(_)
Concat(ss) == IF ss = <<>> THEN <<>> ELSE Head(ss) \o Concat(Tail(ss))

\* String.prototype.split(sep) for a one-character separator
RECURSIVE SplitFrom(_, _, _, _)
SplitFrom(s, sep, i, cur) ==
    IF i > Len(s) THEN <<cur>>
    ELSE IF s[i] = sep THEN <<cur>> \o SplitFrom(s, sep, i + 1, <<>>)
    ELSE SplitFrom(s, sep, i + 1, Append(cur, s[i]))

Split(s, sep) == SplitFrom(s, sep, 1, <<>>)

\* String.prototype.padStart(n, ch)
RECURSIVE PadStart(_, _, _)
PadStart(s, n, ch) == IF Len(s) >= n THEN s ELSE PadStart(<<ch>> \o s, n, ch)

\* the lowercase digit Number.prototype.toString(16) writes for d in 0..15
HexDigitChar(d) == IF d < 10 THEN 48 + d ELSE 97 + (d - 10)

\* Number.prototype.toString(16) of a non-negative integer
RECURSIVE ToString16(_)
ToString16(n) ==
    IF n < 16 THEN <<HexDigitChar(n)>>
    ELSE Append(ToString16(n \div 16), HexDigitChar(n % 16))

IsLowerHexChar(c) == c \in 48..57 \/ c \in 97..102
IsHexChar(c) == c \in 48..57 \/ c \in 97..102 \/ c \in 65..70
HexVal(c) == IF c \in 48..57 THEN c - 48
             ELSE IF c \in 97..102 THEN c - 87 ELSE c - 55

\* the characters parseInt and trim skip (WhiteSpace and LineTerminator)
WhiteSpace == {9, 10, 11, 12, 13, 32, 160, 5760, 8232, 8233, 8239, 8287,
               12288, 65279} \cup 8192..8202

(***************************************************************************)
(* Results of a call: a returned value or a thrown error.                  *)
(***************************************************************************)
Val(v) == [ok |-> TRUE, val |-> v, err |-> "", cause |-> ""]
Err(msg, why) == [ok |-> FALSE, val |-> <<>>, err |-> msg, cause |-> why]

(***************************************************************************)
(* src/script.js : class QuantumLayeredEncoder                             *)
(***************************************************************************)
\* createSubstitutionMatrix with the even multiplier 16 in place of 17
createSubstitutionMatrixEven == [i \in 0..255 |-> (i * 16 + 42) % 256]

createSubstitutionMatrix == [i \in 0..255 |-> (i * 17 + 42) % 256]

substitutionMatrix == createSubstitutionMatrix

\* inverse[matrix[i]] = i for i = 0..255 in order: the last write to a cell
\* wins, a cell never written stays a hole
createInverseMatrix ==
    [v \in 0..255 |->
        LET writers == {i \in 0..255 : substitutionMatrix[i] = v}
        IN IF writers = {} THEN Hole
           ELSE CHOOSE i \in writers : \A j \in writers : j <= i]

inverseMatrix == createInverseMatrix

\* A 32-bit accumulator as two 16-bit halves.  ((hash << 5) + hash) + add,
\* then & 0xFFFFFFFF, keeps hash * 33 + add modulo 2^32.
HashInit == [hi |-> 0, lo |-> 5381]

\* HashStep with the multiplier 34 (hash * 33 + hash) in place of 33
HashStepDouble(hash, add) ==
    LET t == hash.lo * 34 + add
    IN [hi |-> (hash.hi * 34 + (t \div 65536)) % 65536, lo |-> t % 65536]

HashStep(hash, add) ==
    LET t == hash.lo * 33 + add
    IN [hi |-> (hash.hi * 33 + (t \div 65536)) % 65536, lo |-> t % 65536]

\* the second byte of the accumulator in place of the low one
HashSecondByte(hash) == (hash.lo \div 256) % 256

\* the accumulator as the signed 32-bit number JavaScript holds is
\* hi * 65536 + lo, minus 2^32 when hi >= 32768; hash & 0xFF is its low byte
HashLowByte(hash) == hash.lo % 256

RECURSIVE HashKey(_, _, _)
HashKey(key, i, hash) ==
    IF i >= Len(key) THEN hash
    ELSE HashKey(key, i + 1, HashStep(hash, key[i + 1]))

KeyOffset == 7919

\* the accumulators after iterations i .. n-1 of the generation loop
RECURSIVE GenerateRun(_, _, _)
GenerateRun(hash, i, n) ==
    IF i >= n THEN <<>>
    ELSE LET h == HashStep(hash, i + KeyOffset)
         IN <<h>> \o GenerateRun(h, i + 1, n)

\* the 256 iterations of the generation loop, taken 16 at a time
RECURSIVE GenerateBlocks(_, _, _)
GenerateBlocks(hash, i, hashes) ==
    IF i >= 256 THEN hashes
    ELSE LET block == GenerateRun(hash, i, i + 16)
         IN GenerateBlocks(block[16], i + 16, hashes \o block)

\* derivedKey.push(hash & 0xFF) for each of the 256 accumulators
GenerateKey(hash) ==
    LET hashes == GenerateBlocks(hash, 0, <<>>)
    IN [j \in 1..256 |-> HashLowByte(hashes[j])]

\* !key || key.length === 0
KeyMissing(key) == key = Undefined \/ Len(key) = 0

keyDerivation(key) ==
    IF KeyMissing(key)
    THEN Err("Encryption key is required", "Encryption key is required")
    ELSE Val(GenerateKey(HashKey(key, 0, HashInit)))

\* passphrases: absent, empty, "k3y!", "wrong", "ab", "bA", "b", "B", and
\* "iZ", whose seed is the seed of "ab" plus 256
Passphrases ==
    {Undefined, <<>>, <<107, 51, 121, 33>>, <<119, 114, 111, 110, 103>>,
     <<97, 98>>, <<98, 65>>, <<98>>, <<66>>, <<105, 90>>}

\* keyDerivation is a pure function of the passphrase: its results for the
\* passphrases of the model are tabulated once and looked up by the calls
DerivedKeys == [key \in Passphrases |-> keyDerivation(key)]

\* rotate an 8-bit value left by n: ((v << n) | (v >> (8 - n))) & 0xFF
RotateLeft(v, n) == BitOr(v * Pow(2, n), v \div Pow(2, 8 - n), 16) % 256

\* rotate an 8-bit value right by n: ((v >> n) | (v << (8 - n))) & 0xFF
RotateRight(v, n) == BitOr(v \div Pow(2, n), v * Pow(2, 8 - n), 16) % 256

\* scrambleByte with the rotation of layer 3 left out
scrambleByteNoRotate(byte, position, derivedKey) ==
    LET l1 == substitutionMatrix[byte]
        l2 == BitXor(l1, derivedKey[(position % Len(derivedKey)) + 1], 8)
    IN (l2 + derivedKey[((position * 7) % Len(derivedKey)) + 1]) % 256

scrambleByte(byte, position, derivedKey) ==
    LET l1 == substitutionMatrix[byte]
        l2 == BitXor(l1, derivedKey[(position % Len(derivedKey)) + 1], 8)
        rotateAmount == position % 8
        l3 == RotateLeft(l2, rotateAmount)
    IN (l3 + derivedKey[((position * 7) % Len(derivedKey)) + 1]) % 256

\* unscrambleByte with the rotation of layer 3 left out
unscrambleByteNoRotate(byte, position, derivedKey) ==
    LET r4 == (byte - derivedKey[((position * 7) % Len(derivedKey)) + 1]
               + 256) % 256
        r2 == BitXor(r4, derivedKey[(position % Len(derivedKey)) + 1], 8)
    IN inverseMatrix[r2]

unscrambleByte(byte, position, derivedKey) ==
    LET r4 == (byte - derivedKey[((position * 7) % Len(derivedKey)) + 1]
               + 256) % 256
        rotateAmount == position % 8
        r3 == RotateRight(r4, rotateAmount)
        r2 == BitXor(r3, derivedKey[(position % Len(derivedKey)) + 1], 8)
    IN inverseMatrix[r2]

\* calculateChecksum with the multiplier 32 (a shift) in place of 31
calculateChecksumShift(data, derivedKey) ==
    LET RECURSIVE OverData(_, _)
        OverData(i, checksum) ==
            IF i >= Len(data) THEN checksum
            ELSE OverData(i + 1, (checksum * 32 + data[i + 1]) % 65536)
        RECURSIVE OverKey(_, _)
        OverKey(i, checksum) ==
            IF ~(i < Len(derivedKey) /\ i < 16) THEN checksum
            ELSE OverKey(i + 1,
                         (checksum + derivedKey[i + 1] * (i + 1)) % 65536)
    IN PadStart(ToString16(OverKey(0, OverData(0, 0))), 4, 48)

\* calculateChecksum without the key influence of lines 163-165
calculateChecksumNoKey(data, derivedKey) ==
    LET RECURSIVE OverData(_, _)
        OverData(i, checksum) ==
            IF i >= Len(data) THEN checksum
            ELSE OverData(i + 1, (checksum * 31 + data[i + 1]) % 65536)
    IN PadStart(ToString16(OverData(0, 0)), 4, 48)

calculateChecksum(data, derivedKey) ==
    LET RECURSIVE OverData(_, _)
        OverData(i, checksum) ==
            IF i >= Len(data) THEN checksum
            ELSE OverData(i + 1, (checksum * 31 + data[i + 1]) % 65536)
        RECURSIVE OverKey(_, _)
        OverKey(i, checksum) ==
            IF ~(i < Len(derivedKey) /\ i < 16) THEN checksum
            ELSE OverKey(i + 1,
                         (checksum + derivedKey[i + 1] * (i + 1)) % 65536)
    IN PadStart(ToString16(OverKey(0, OverData(0, 0))), 4, 48)

\* bytesToHex without padStart(2, '0')
bytesToHexNoPad(bytes, derivedKey) ==
    LET hex == Concat([i \in 1..Len(bytes) |-> ToString16(bytes[i])])
    IN hex \o <<DOT>> \o calculateChecksum(hex, derivedKey)

\* bytesToHex writing the digits a-f in upper case
bytesToHexUpper(bytes, derivedKey) ==
    LET hex == Concat([i \in 1..Len(bytes) |->
                          PadStart(ToString16(bytes[i]), 2, 48)])
        upper == [j \in 1..Len(hex) |->
                     IF hex[j] \in 97..102 THEN hex[j] - 32 ELSE hex[j]]
    IN upper \o <<DOT>> \o calculateChecksum(upper, derivedKey)

bytesToHex(bytes, derivedKey) ==
    LET hex == Concat([i \in 1..Len(bytes) |->
                          PadStart(ToString16(bytes[i]), 2, 48)])
    IN hex \o <<DOT>> \o calculateChecksum(hex, derivedKey)

NaN == [nan |-> TRUE, v |-> 0]
Num(n) == [nan |-> FALSE, v |-> n]

\* parseInt(s, 16): skip leading white space, take a sign, skip a 0x / 0X
\* prefix, then read hex digits up to the first character that is none;
\* NaN when no digit was read
parseInt16(s) ==
    LET RECURSIVE SkipWs(_)
        SkipWs(i) == IF i <= Len(s) /\ s[i] \in WhiteSpace
                     THEN SkipWs(i + 1) ELSE i
        a == SkipWs(1)
        negative == a <= Len(s) /\ s[a] = 45
        b == IF a <= Len(s) /\ s[a] \in {43, 45} THEN a + 1 ELSE a
        c == IF b + 1 <= Len(s) /\ s[b] = 48 /\ s[b + 1] \in {120, 88}
             THEN b + 2 ELSE b
        RECURSIVE Digits(_, _, _)
        Digits(i, n, any) ==
            IF i <= Len(s) /\ IsHexChar(s[i])
            THEN Digits(i + 1, n * 16 + HexVal(s[i]), TRUE)
            ELSE IF any THEN Num(IF negative THEN 0 - n ELSE n) ELSE NaN
    IN Digits(c, 0, FALSE)

\* the errors hexToBytes throws
ErrFormat == "Invalid format"
ErrChecksum == "Checksum verification failed"
ErrOddLength == "Invalid hex data"
ErrHexChar == "Invalid hex character"

\* hexToBytes with the length of the hex part checked before the checksum
hexToBytesLengthFirst(encoded, derivedKey) ==
    LET parts == Split(encoded, DOT)
    IN IF Len(parts) # 2 THEN Err(ErrFormat, ErrFormat)
       ELSE
        LET hexData == parts[1]
            checksum == parts[2]
            expectedChecksum == calculateChecksum(hexData, derivedKey)
            pairs == [j \in 1..(Len(hexData) \div 2) |->
                         parseInt16(Substr(hexData, 2 * (j - 1), 2))]
        IN IF Len(hexData) % 2 # 0 THEN Err(ErrOddLength, ErrOddLength)
           ELSE IF checksum # expectedChecksum
                THEN Err(ErrChecksum, ErrChecksum)
           ELSE IF \E j \in 1..Len(pairs) : pairs[j].nan
                THEN Err(ErrHexChar, ErrHexChar)
           ELSE Val([j \in 1..Len(pairs) |-> pairs[j].v])

hexToBytes(encoded, derivedKey) ==
    LET parts == Split(encoded, DOT)
    IN IF Len(parts) # 2 THEN Err(ErrFormat, ErrFormat)
       ELSE
        LET hexData == parts[1]
            checksum == parts[2]
            expectedChecksum == calculateChecksum(hexData, derivedKey)
            pairs == [j \in 1..(Len(hexData) \div 2) |->
                         parseInt16(Substr(hexData, 2 * (j - 1), 2))]
        IN IF checksum # expectedChecksum THEN Err(ErrChecksum, ErrChecksum)
           ELSE IF Len(hexData) % 2 # 0 THEN Err(ErrOddLength, ErrOddLength)
           ELSE IF \E j \in 1..Len(pairs) : pairs[j].nan
                THEN Err(ErrHexChar, ErrHexChar)
           ELSE Val([j \in 1..Len(pairs) |-> pairs[j].v])

(***************************************************************************)
(* TextEncoder / TextDecoder (UTF-8), the host's conversions between text  *)
(* and bytes that encode and decode call.                                  *)
(***************************************************************************)
REPLACEMENT == 65533
BOM == 65279

Utf8OfCodePoint(cp) ==
    IF cp < 128 THEN <<cp>>
    ELSE IF cp < 2048 THEN <<192 + (cp \div 64), 128 + (cp % 64)>>
    ELSE IF cp < 65536
         THEN <<224 + (cp \div 4096), 128 + ((cp \div 64) % 64),
                128 + (cp % 64)>>
    ELSE <<240 + (cp \div 262144), 128 + ((cp \div 4096) % 64),
           128 + ((cp \div 64) % 64), 128 + (cp % 64)>>

\* new TextEncoder().encode(text): a surrogate pair is one code point, a
\* lone surrogate is written as U+FFFD
RECURSIVE TextEncode(_)
TextEncode(text) ==
    IF text = <<>> THEN <<>>
    ELSE LET u == Head(text)
         IN IF u \in 55296..56319 /\ Len(text) >= 2 /\ text[2] \in 56320..57343
            THEN Utf8OfCodePoint(65536 + (u - 55296) * 1024
                                 + (text[2] - 56320))
                 \o TextEncode(Tail(Tail(text)))
            ELSE IF u \in 55296..57343
            THEN Utf8OfCodePoint(REPLACEMENT) \o TextEncode(Tail(text))
            ELSE Utf8OfCodePoint(u) \o TextEncode(Tail(text))

UnitsOfCodePoint(cp) ==
    IF cp < 65536 THEN <<cp>>
    ELSE <<55296 + ((cp - 65536) \div 1024), 56320 + ((cp - 65536) % 1024)>>

\* the UTF-8 decoder of the Encoding standard, errors replaced by U+FFFD
RECURSIVE Utf8Decode(_, _, _, _, _, _, _)
Utf8Decode(bytes, i, need, seen, cp, lower, upper) ==
    IF i > Len(bytes) THEN (IF need # 0 THEN <<REPLACEMENT>> ELSE <<>>)
    ELSE
     LET b == bytes[i]
     IN IF need = 0
        THEN IF b <= 127
             THEN <<b>> \o Utf8Decode(bytes, i + 1, 0, 0, 0, 128, 191)
             ELSE IF b \in 194..223
             THEN Utf8Decode(bytes, i + 1, 1, 0, b % 32, 128, 191)
             ELSE IF b \in 224..239
             THEN Utf8Decode(bytes, i + 1, 2, 0, b % 16,
                             IF b = 224 THEN 160 ELSE 128,
                             IF b = 237 THEN 159 ELSE 191)
             ELSE IF b \in 240..244
             THEN Utf8Decode(bytes, i + 1, 3, 0, b % 8,
                             IF b = 240 THEN 144 ELSE 128,
                             IF b = 244 THEN 143 ELSE 191)
             ELSE <<REPLACEMENT>>
                  \o Utf8Decode(bytes, i + 1, 0, 0, 0, 128, 191)
        ELSE IF ~(b \in lower..upper)
             THEN <<REPLACEMENT>> \o Utf8Decode(bytes, i, 0, 0, 0, 128, 191)
             ELSE IF seen + 1 = need
             THEN UnitsOfCodePoint(cp * 64 + (b % 64))
                  \o Utf8Decode(bytes, i + 1, 0, 0, 0, 128, 191)
             ELSE Utf8Decode(bytes, i + 1, need, seen + 1,
                             cp * 64 + (b % 64), 128, 191)

\* new TextDecoder().decode(new Uint8Array(bytes)): the array keeps each
\* value modulo 256, and a leading byte order mark is dropped
TextDecode(bytes) ==
    LET units == Utf8Decode([j \in 1..Len(bytes) |-> bytes[j] % 256],
                            1, 0, 0, 0, 128, 191)
    IN IF units # <<>> /\ units[1] = BOM THEN Tail(units) ELSE units

\* !text : the text is absent or empty
TextMissing(text) == text = Undefined \/ Len(text) = 0

ErrDecode == "Decoding failed: Invalid key or corrupted data"

\* the bytes encode scrambles, before the frame is written
encodeBytes(textBytes, derivedKey) ==
    [i \in 1..Len(textBytes) |-> scrambleByte(textBytes[i], i - 1, derivedKey)]

\* the bytes decode unscrambles, before the text is rebuilt
decodeBytes(decodedBytes, derivedKey) ==
    [i \in 1..Len(decodedBytes) |->
        unscrambleByte(decodedBytes[i], i - 1, derivedKey)]

encode(text, key) ==
    IF TextMissing(text) THEN Val(<<>>)
    ELSE LET derivedKey == DerivedKeys[key]
         IN IF ~derivedKey.ok THEN derivedKey
            ELSE Val(bytesToHex(encodeBytes(TextEncode(text), derivedKey.val),
                                derivedKey.val))

\* every error thrown inside the try block is rethrown as ErrDecode; the
\* field cause keeps the message of the error that was caught
decode(encodedText, key) ==
    IF TextMissing(encodedText) THEN Val(<<>>)
    ELSE LET derivedKey == DerivedKeys[key]
         IN IF ~derivedKey.ok THEN Err(ErrDecode, derivedKey.cause)
            ELSE LET decodedBytes == hexToBytes(encodedText, derivedKey.val)
                 IN IF ~decodedBytes.ok THEN Err(ErrDecode, decodedBytes.cause)
                    ELSE Val(TextDecode(decodeBytes(decodedBytes.val,
                                                    derivedKey.val)))

(***************************************************************************)
(* The cipher as a state machine: a caller invokes keyDerivation, encode   *)
(* and decode of the one encoder object (script.js:181) with texts and     *)
(* passphrases of its choice.  The encoder keeps no state between calls;   *)
(* the state is the last call, what it returned or threw, and the last     *)
(* frame encode produced (the text a caller carries to decode).            *)
(***************************************************************************)
\* the state of the detection scan of src/unnamed/part_000, declared here
\* because every action says what it leaves alone
VARIABLES appSettings, dInput, dPad, dStatus, dIndex, results, bestResult,
          bestType, bestConfidence, attempted

detectVars == <<appSettings, dInput, dPad, dStatus, dIndex, results,
                bestResult, bestType, bestConfidence, attempted>>

\* null
Null == <<-1>>
NullType == "null"

\* appState.settings as first loaded (line 12)
DefaultSettings ==
    [autoDetect |-> TRUE, detectionSensitivity |-> "medium",
     enabledEncodings |-> <<>>]

\* the last call of a codec function of src/unnamed/part_000 and what it
\* returned
VARIABLES codecCall, codecRet

codecVars == <<codecCall, codecRet>>

\* no codec function called yet
NoCodecCall == [op |-> "none", text |-> <<>>, shift |-> 0]
NoCodecRet == [encoded |-> <<>>, decoded |-> Val(<<>>)]

\* The page of src/unnamed/part_000 as processBatch sees it: the fields
\* encode-input, encoding-select and decode-input, the elements encode-result
\* and decode-result, the list batch-results (batchItems), the counter
\* appState.stats.totalOps and the completion notifications shown; the run
\* of processBatch itself: its lines, operation and encoding, how many
\* callbacks of lines.forEach have started, each callback's position and
\* locals, the digests the host still owes, the microtask queue, and
\* processedCount; preBatch keeps the values of the fields when the batch
\* started.
VARIABLES encodeInput, encodingSelect, decodeInput, encodeResult,
          decodeResult, batchItems, totalOps, notifications, batchPc,
          batchLines, batchOperation, batchEncoding, started, callbacks,
          pendingDigests, microtasks, processedCount, preBatch

batchVars == <<encodeInput, encodingSelect, decodeInput, encodeResult,
               decodeResult, batchItems, totalOps, notifications, batchPc,
               batchLines, batchOperation, batchEncoding, started, callbacks,
               pendingDigests, microtasks, processedCount, preBatch>>

\* a callback of lines.forEach that has not started
NoCallback == [pc |-> "idle", originalInput |-> <<>>, originalSelect |-> ""]

\* the fields of the page before any batch
NoBatch == [encodeInput |-> <<>>, encodingSelect |-> "", decodeInput |-> <<>>]

\* appState.history, the clock Date.now() reads, the last call of
\* addToHistory or clearHistory and the number of calls made
VARIABLES history, clock, historyCall, historyCalls

historyVars == <<history, clock, historyCall, historyCalls>>

NoHistoryCall == [op |-> "none", input |-> <<>>, output |-> <<>>]

pageVars == <<batchVars, historyVars>>

VARIABLES cipherCall, cipherRet, sent

cipherVars == <<cipherCall, cipherRet, sent>>

\* plaintext characters: 'H', 'I' and U+00E9 (two bytes in UTF-8)
PlainChars == {72, 73, 233}

RECURSIVE SeqsUpTo(_, _)
SeqsUpTo(S, n) ==
    IF n = 0 THEN {<<>>}
    ELSE LET shorter == SeqsUpTo(S, n - 1)
         IN shorter \cup {Append(t, c) : t \in {u \in shorter : Len(u) = n - 1},
                                          c \in S}

Plaintexts == SeqsUpTo(PlainChars, MaxTextLen)

\* characters a caller may put in place of one character of a frame:
\* '.', 'g', ' ', '-', '0', 'f', 'F'
ReplacementChars == {DOT, 103, 32, 45, 48, 102, 70}
\* the replacements the decode action tries
TriedReplacements == {DOT, 103, 48, 102}

Replace(s, pos, c) == [j \in 1..Len(s) |-> IF j = pos THEN c ELSE s[j]]

HexPart(frame) == Split(frame, DOT)[1]

\* the frames obtained from frame by replacing one character of its hex part
Mutations(frame, chars) ==
    {Replace(frame, pos, c) : pos \in 1..Len(HexPart(frame)),
                              c \in {d \in chars : TRUE}}
    \ {frame}

\* hex parts a caller may frame by hand: "4g", "-1", " a", "0x", "g4",
\* "+f", "zz", "4"
HandMadeHex ==
    {<<52, 103>>, <<45, 49>>, <<32, 97>>, <<48, 120>>, <<103, 52>>,
     <<43, 102>>, <<122, 122>>, <<52>>}

\* a hand-made hex part with the checksum that matches it under key
HandMadeFrame(hex, key) ==
    hex \o <<DOT>> \o calculateChecksum(hex, DerivedKeys[key].val)

NoCall == [op |-> "none", text |-> <<>>, key |-> <<>>, position |-> 0]
NoFrame == [text |-> <<>>, key |-> <<>>, frame |-> <<>>]

\* no call made yet; the page holds its first settings and no scan has run
CipherInit ==
    /\ cipherCall = NoCall
    /\ cipherRet = Val(<<>>)
    /\ sent = NoFrame
    /\ appSettings = DefaultSettings
    /\ dInput = <<>>
    /\ dPad = 0
    /\ dStatus = "idle"
    /\ dIndex = 0
    /\ results = <<>>
    /\ bestResult = Null
    /\ bestType = NullType
    /\ bestConfidence = 0
    /\ attempted = <<>>
    /\ codecCall = NoCodecCall
    /\ codecRet = NoCodecRet
    /\ encodeInput = <<>>
    /\ encodingSelect = "base64"
    /\ decodeInput = <<>>
    /\ encodeResult = <<>>
    /\ decodeResult = <<>>
    /\ batchItems = <<>>
    /\ totalOps = 0
    /\ notifications = 0
    /\ batchPc = "idle"
    /\ batchLines = <<>>
    /\ batchOperation = "encode"
    /\ batchEncoding = "base64"
    /\ started = 0
    /\ callbacks = <<>>
    /\ pendingDigests = {}
    /\ microtasks = <<>>
    /\ processedCount = 0
    /\ preBatch = NoBatch
    /\ history = <<>>
    /\ clock = 0
    /\ historyCall = NoHistoryCall
    /\ historyCalls = 0

\* One run of the model is one exchange: a caller derives a key, or encodes
\* a text and then decodes, or decodes straight away, or calls scrambleByte
\* or hexToBytes on its own.
KeyDerivationCall(key) ==
    /\ cipherCall.op = "none"
    /\ cipherCall' = [op |-> "keyDerivation", text |-> <<>>, key |-> key,
                      position |-> 0]
    /\ cipherRet' = DerivedKeys[key]
    /\ UNCHANGED sent
    /\ UNCHANGED <<detectVars, codecVars, pageVars>>

EncodeCall(text, key) ==
    LET r == encode(text, key)
    IN /\ cipherCall.op = "none"
       /\ cipherCall' = [op |-> "encode", text |-> text, key |-> key,
                         position |-> 0]
       /\ cipherRet' = r
       /\ sent' = IF r.ok /\ r.val # <<>>
                  THEN [text |-> text, key |-> key, frame |-> r.val]
                  ELSE sent
       /\ UNCHANGED <<detectVars, codecVars, pageVars>>

\* bytes and positions handed to scrambleByte on its own: positions on both
\* sides of a multiple of 8, of 256 / 7 and of 256
ScrambleBytes == {0, 97, 255}
ScramblePositions == {0, 1, 7, 8, 9, 36, 37, 255, 256, 263, 1000}

ScrambleByteCall(byte, position, key) ==
    /\ cipherCall.op = "none"
    /\ ~KeyMissing(key)
    /\ cipherCall' = [op |-> "scrambleByte", text |-> <<byte>>, key |-> key,
                      position |-> position]
    /\ cipherRet' = Val(<<scrambleByte(byte, position, DerivedKeys[key].val)>>)
    /\ UNCHANGED sent
    /\ UNCHANGED <<detectVars, codecVars, pageVars>>

\* hex parts handed to hexToBytes on its own: "4a", "4", "4g", "g4", "",
\* "4a4" and "4g4"
UnframeHex ==
    {<<52, 97>>, <<52>>, <<52, 103>>, <<103, 52>>, <<>>, <<52, 97, 52>>,
     <<52, 103, 52>>}

\* each hex part alone, with its own checksum, with the text "zzzz" in
\* place of the checksum, and with its own checksum and one more dot
UnframeInputs(key) ==
    UNION {{h,
            HandMadeFrame(h, key),
            h \o <<DOT>> \o <<122, 122, 122, 122>>,
            HandMadeFrame(h, key) \o <<DOT>>} : h \in UnframeHex}

HexToBytesCall(encoded, key) ==
    /\ cipherCall.op = "none"
    /\ ~KeyMissing(key)
    /\ cipherCall' = [op |-> "hexToBytes", text |-> encoded, key |-> key,
                      position |-> 0]
    /\ cipherRet' = hexToBytes(encoded, DerivedKeys[key].val)
    /\ UNCHANGED sent
    /\ UNCHANGED <<detectVars, codecVars, pageVars>>

\* the texts a caller hands to decode: nothing, the frame it was sent, that
\* frame with one character of the hex part replaced, or a hand-made frame
DecodeInputs(key) ==
    {<<>>, Undefined}
    \cup (IF sent = NoFrame THEN {}
          ELSE {sent.frame} \cup Mutations(sent.frame, TriedReplacements))
    \cup (IF KeyMissing(key) THEN {}
          ELSE {HandMadeFrame(h, key) : h \in HandMadeHex})

DecodeCall(key) ==
    /\ cipherCall.op \in {"none", "encode"}
    /\ \E encodedText \in DecodeInputs(key) :
          /\ cipherCall' = [op |-> "decode", text |-> encodedText,
                            key |-> key, position |-> 0]
          /\ cipherRet' = decode(encodedText, key)
    /\ UNCHANGED sent
    /\ UNCHANGED <<detectVars, codecVars, pageVars>>

CipherNext ==
    \/ \E key \in Passphrases : KeyDerivationCall(key)
    \/ \E text \in Plaintexts \cup {Undefined}, key \in Passphrases :
          EncodeCall(text, key)
    \/ \E key \in Passphrases : DecodeCall(key)
    \/ \E byte \in ScrambleBytes, position \in ScramblePositions,
          key \in Passphrases : ScrambleByteCall(byte, position, key)
    \/ \E key \in {k \in Passphrases : ~KeyMissing(k)} :
          \E encoded \in UnframeInputs(key) : HexToBytesCall(encoded, key)

(***************************************************************************)
(* src/unnamed/part_000 : text helpers of the host that the detection scan *)
(* calls (String and RegExp methods, atob).                                *)
(***************************************************************************)
IsDigit(c) == c \in 48..57
IsUpper(c) == c \in 65..90
IsLower(c) == c \in 97..122
IsLetter(c) == IsUpper(c) \/ IsLower(c)

\* String.prototype.includes for a one-character needle
Includes(s, c) == \E j \in 1..Len(s) : s[j] = c

\* String.prototype.trim
RECURSIVE TrimStart(_)
TrimStart(s) ==
    IF s # <<>> /\ Head(s) \in WhiteSpace THEN TrimStart(Tail(s)) ELSE s

RECURSIVE TrimEnd(_)
TrimEnd(s) ==
    IF s # <<>> /\ s[Len(s)] \in WhiteSpace
    THEN TrimEnd(SubSeq(s, 1, Len(s) - 1)) ELSE s

Trim(s) == TrimEnd(TrimStart(s))

\* String.prototype.split(/\s+/): the pieces between runs of white space
RECURSIVE SplitWsFrom(_, _, _)
SplitWsFrom(s, i, cur) ==
    IF i > Len(s) THEN <<cur>>
    ELSE IF s[i] \in WhiteSpace
         THEN IF i > 1 /\ s[i - 1] \in WhiteSpace
              THEN SplitWsFrom(s, i + 1, cur)
              ELSE <<cur>> \o SplitWsFrom(s, i + 1, <<>>)
         ELSE SplitWsFrom(s, i + 1, Append(cur, s[i]))

SplitWs(s) == SplitWsFrom(s, 1, <<>>)

\* Array.prototype.join of texts with a separator text
RECURSIVE Join(_, _)
Join(ss, sep) ==
    IF ss = <<>> THEN <<>>
    ELSE IF Len(ss) = 1 THEN ss[1]
    ELSE ss[1] \o sep \o Join(Tail(ss), sep)

\* the text holds %XX (or =XX) somewhere: mark followed by two hex digits
HasEscape(s, mark) ==
    \E j \in 1..Len(s) :
       /\ s[j] = mark
       /\ j + 2 <= Len(s)
       /\ IsHexChar(s[j + 1])
       /\ IsHexChar(s[j + 2])

\* /^[A-Za-z0-9+/]*={0,2}$/
IsBase64Char(c) == IsLetter(c) \/ IsDigit(c) \/ c = 43 \/ c = 47

MatchesBase64(s) ==
    \E pad \in 0..2 :
       /\ pad <= Len(s)
       /\ \A j \in 1..Len(s) :
             IF j > Len(s) - pad THEN s[j] = EQUALS ELSE IsBase64Char(s[j])

\* /^([0-9a-fA-F]{2}\s*)+$/ when atLeastOne, /^([0-9a-fA-F]{2}\s*)*$/
\* otherwise, and the same for groups of n characters of another class:
\* the text is groups of exactly n such characters, white space allowed
\* after a group but not inside one
RECURSIVE MatchesGroupsFrom(_, _, _, _)
MatchesGroupsFrom(s, i, n, class) ==
    IF i > Len(s) THEN TRUE
    ELSE IF s[i] \in WhiteSpace THEN MatchesGroupsFrom(s, i + 1, n, class)
    ELSE /\ i + n - 1 <= Len(s)
         /\ \A j \in i..(i + n - 1) : s[j] \in class
         /\ MatchesGroupsFrom(s, i + n, n, class)

MatchesGroups(s, n, class, atLeastOne) ==
    IF s = <<>> THEN ~atLeastOne
    ELSE /\ ~(s[1] \in WhiteSpace)
         /\ MatchesGroupsFrom(s, 1, n, class)

HexChars == (48..57) \cup (97..102) \cup (65..70)
BinaryChars == {48, 49}

\* /^(\d{2,3}\s*)+$/ : runs of digits separated by white space, every run of
\* two digits or more (a run of n >= 2 digits splits into twos and threes)
RECURSIVE MatchesAsciiFrom(_, _, _)
MatchesAsciiFrom(s, i, run) ==
    IF i > Len(s) THEN run # 1
    ELSE IF s[i] \in WhiteSpace
         THEN run # 1 /\ MatchesAsciiFrom(s, i + 1, 0)
    ELSE IF IsDigit(s[i]) THEN MatchesAsciiFrom(s, i + 1, Min(run + 1, 2))
    ELSE FALSE

MatchesAscii(s) ==
    /\ s # <<>>
    /\ IsDigit(s[1])
    /\ MatchesAsciiFrom(s, 1, 0)

\* /^[.-\s/]+$/ : '.', '-', '/' and white space only, at least one character
MatchesMorse(s) ==
    /\ s # <<>>
    /\ \A j \in 1..Len(s) : s[j] \in {46, 45, 47} \/ s[j] \in WhiteSpace

\* /^[A-Z2-7=]*$/i
MatchesBase32(s) ==
    \A j \in 1..Len(s) : IsLetter(s[j]) \/ s[j] \in 50..55 \/ s[j] = EQUALS

\* the value of a character in the base64 alphabet
Base64Index(c) ==
    IF IsUpper(c) THEN c - 65
    ELSE IF IsLower(c) THEN c - 71
    ELSE IF IsDigit(c) THEN c + 4
    ELSE IF c = 43 THEN 62 ELSE 63

ErrAtob == "The string to be decoded is not correctly encoded"

\* the bytes of the groups of a base64 text without padding
RECURSIVE Base64Groups(_)
Base64Groups(s) ==
    IF Len(s) >= 4
    THEN LET n == Base64Index(s[1]) * 262144 + Base64Index(s[2]) * 4096
                  + Base64Index(s[3]) * 64 + Base64Index(s[4])
         IN <<n \div 65536, (n \div 256) % 256, n % 256>>
            \o Base64Groups(SubSeq(s, 5, Len(s)))
    ELSE IF Len(s) = 3
    THEN LET n == Base64Index(s[1]) * 4096 + Base64Index(s[2]) * 64
                  + Base64Index(s[3])
         IN <<n \div 1024, (n \div 4) % 256>>
    ELSE IF Len(s) = 2
    THEN <<(Base64Index(s[1]) * 64 + Base64Index(s[2])) \div 16>>
    ELSE <<>>

\* atob: drop ASCII white space, drop one or two '=' that end a text whose
\* length is a multiple of 4, fail on a length of 1 modulo 4 or a character
\* outside the alphabet, then unpack 6 bits per character
atob(s) ==
    LET bare == SelectSeq(s, LAMBDA c : ~(c \in {9, 10, 12, 13, 32}))
        n == Len(bare)
        cut == IF n > 0 /\ n % 4 = 0 /\ bare[n] = EQUALS
               THEN IF bare[n - 1] = EQUALS THEN 2 ELSE 1
               ELSE 0
        data == SubSeq(bare, 1, n - cut)
    IN IF Len(data) % 4 = 1 \/ \E j \in 1..Len(data) : ~IsBase64Char(data[j])
       THEN Err(ErrAtob, ErrAtob)
       ELSE Val(Base64Groups(data))

(***************************************************************************)
(* src/unnamed/part_000 : the decoders the detection scan calls.  A        *)
(* decoder returns Val(text) or Err(message) when it throws.               *)
(***************************************************************************)
\* morseToChar as pairs <<code, character>>: A-Z, 0-9, and '/' for ' '
morseToChar ==
    {<<<<46, 45>>, 65>>, <<<<45, 46, 46, 46>>, 66>>,
     <<<<45, 46, 45, 46>>, 67>>, <<<<45, 46, 46>>, 68>>, <<<<46>>, 69>>,
     <<<<46, 46, 45, 46>>, 70>>, <<<<45, 45, 46>>, 71>>,
     <<<<46, 46, 46, 46>>, 72>>, <<<<46, 46>>, 73>>,
     <<<<46, 45, 45, 45>>, 74>>, <<<<45, 46, 45>>, 75>>,
     <<<<46, 45, 46, 46>>, 76>>, <<<<45, 45>>, 77>>, <<<<45, 46>>, 78>>,
     <<<<45, 45, 45>>, 79>>, <<<<46, 45, 45, 46>>, 80>>,
     <<<<45, 45, 46, 45>>, 81>>, <<<<46, 45, 46>>, 82>>,
     <<<<46, 46, 46>>, 83>>, <<<<45>>, 84>>, <<<<46, 46, 45>>, 85>>,
     <<<<46, 46, 46, 45>>, 86>>, <<<<46, 45, 45>>, 87>>,
     <<<<45, 46, 46, 45>>, 88>>, <<<<45, 46, 45, 45>>, 89>>,
     <<<<45, 45, 46, 46>>, 90>>, <<<<45, 45, 45, 45, 45>>, 48>>,
     <<<<46, 45, 45, 45, 45>>, 49>>, <<<<46, 46, 45, 45, 45>>, 50>>,
     <<<<46, 46, 46, 45, 45>>, 51>>, <<<<46, 46, 46, 46, 45>>, 52>>,
     <<<<46, 46, 46, 46, 46>>, 53>>, <<<<45, 46, 46, 46, 46>>, 54>>,
     <<<<45, 45, 46, 46, 46>>, 55>>, <<<<45, 45, 45, 46, 46>>, 56>>,
     <<<<45, 45, 45, 45, 46>>, 57>>, <<<<47>>, 32>>}

\* morseToChar[code] || ''
MorseLookup(code) ==
    IF \E e \in morseToChar : e[1] = code
    THEN <<(CHOOSE e \in morseToChar : e[1] = code)[2]>>
    ELSE <<>>

decodeMorse(morseText) ==
    LET words == Split(Trim(morseText), 47)
        DecodeWord(word) ==
            LET codes == Split(Trim(word), 32)
            IN Concat([j \in 1..Len(codes) |-> MorseLookup(codes[j])])
    IN Trim(Join([j \in 1..Len(words) |-> DecodeWord(words[j])], <<32>>))

\* base32Alphabet[index]
Base32Symbol(index) == IF index < 26 THEN 65 + index ELSE 24 + index

\* while (bits >= 5) { output += base32Alphabet[(value >>> (bits - 5)) & 31];
\* bits -= 5 }
RECURSIVE Base32Emit(_, _)
Base32Emit(value, bits) ==
    IF bits < 5 THEN <<>>
    ELSE <<Base32Symbol((value \div Pow(2, bits - 5)) % 32)>>
         \o Base32Emit(value, bits - 5)

\* The loop of encodeBase32 and the symbol of the bits left over.  Only the
\* bits of value below position bits (at most 12) are ever read, so value is
\* kept modulo 2^16, where the 32-bit shift of the code and this one agree.
RECURSIVE Base32EncodeLoop(_, _, _, _)
Base32EncodeLoop(input, i, bits, value) ==
    IF i > Len(input)
    THEN IF bits > 0
         THEN <<Base32Symbol((value * Pow(2, 5 - bits)) % 32)>>
         ELSE <<>>
    ELSE LET v == BitOr((value * 256) % 65536, input[i], 16)
             b == bits + 8
         IN Base32Emit(v, b) \o Base32EncodeLoop(input, i + 1, b % 5, v)

\* while (output.length % 8 !== 0) output += '='
RECURSIVE PadBase32(_)
PadBase32(output) ==
    IF Len(output) % 8 = 0 THEN output ELSE PadBase32(output \o <<EQUALS>>)

\* encodeBase32 without the padding loop
encodeBase32NoPad(input) == Base32EncodeLoop(input, 1, 0, 0)

encodeBase32(input) == PadBase32(Base32EncodeLoop(input, 1, 0, 0))

ErrBase32 == "Invalid base32 character"

\* base32Alphabet.indexOf(c.toUpperCase()), -1 when c is not in A-Z2-7
Base32Index(c) ==
    IF IsUpper(c) THEN c - 65
    ELSE IF IsLower(c) THEN c - 97
    ELSE IF c \in 50..55 THEN c - 24
    ELSE IF c = 305 THEN 8       \* U+0131, whose upper case is 'I'
    ELSE IF c = 383 THEN 18      \* U+017F, whose upper case is 'S'
    ELSE -1

\* input.replace(/=+$/, '')
RECURSIVE StripTrailingEquals(_)
StripTrailingEquals(s) ==
    IF s # <<>> /\ s[Len(s)] = EQUALS
    THEN StripTrailingEquals(SubSeq(s, 1, Len(s) - 1)) ELSE s

\* The loop of decodeBase32.  Only the bits of value below position bits
\* (at most 12) are ever read, so value is kept modulo 2^16, where the
\* 32-bit shift of the code and this one agree.
RECURSIVE Base32Loop(_, _, _, _)
Base32Loop(s, i, bits, value) ==
    IF i > Len(s) THEN <<>>
    ELSE LET v == (value * 32 + Base32Index(s[i])) % 65536
             b == bits + 5
         IN IF b >= 8
            THEN <<(v \div Pow(2, b - 8)) % 256>>
                 \o Base32Loop(s, i + 1, b - 8, v)
            ELSE Base32Loop(s, i + 1, b, v)

decodeBase32(input) ==
    LET s == StripTrailingEquals(input)
    IN IF \E j \in 1..Len(s) : Base32Index(s[j]) = -1
       THEN Err(ErrBase32, ErrBase32)
       ELSE Val(Base32Loop(s, 1, 0, 0))

\* String.fromCharCode(parseInt(token, radix)) for a token made of digits of
\* the radix only: the number modulo 2^16.  (Exact while the number is below
\* 2^53, that is for every token of the inputs of this model.)
RECURSIVE CharOfDigits(_, _, _)
CharOfDigits(token, radix, n) ==
    IF token = <<>> THEN n
    ELSE CharOfDigits(Tail(token), radix,
                      (n * radix + HexVal(Head(token))) % 65536)

\* input.trim().split(/\s+/).map(t => String.fromCharCode(parseInt(t, radix)))
\*      .join('')
DecodeTokens(input, radix) ==
    LET tokens == SplitWs(Trim(input))
    IN [j \in 1..Len(tokens) |-> CharOfDigits(tokens[j], radix, 0)]

\* the rot13 case: letters move 13 places within their case
Rot13(input) ==
    [j \in 1..Len(input) |->
        IF IsLetter(input[j])
        THEN LET base == IF input[j] <= 90 THEN 65 ELSE 97
             IN ((input[j] - base + 13) % 26) + base
        ELSE input[j]]

ErrURI == "URI malformed"

\* decodeURIComponent: %XX escapes are bytes; a byte of 128 or more starts a
\* UTF-8 sequence that the following escapes must complete, anything else
\* is a URIError
RECURSIVE UriDecodeFrom(_, _)
UriDecodeFrom(s, i) ==
    IF i > Len(s) THEN Val(<<>>)
    ELSE IF s[i] # 37
    THEN LET rest == UriDecodeFrom(s, i + 1)
         IN IF rest.ok THEN Val(<<s[i]>> \o rest.val) ELSE rest
    ELSE
     LET EscapeAt(j) == /\ j + 2 <= Len(s)
                        /\ s[j] = 37
                        /\ IsHexChar(s[j + 1])
                        /\ IsHexChar(s[j + 2])
         ByteAt(j) == HexVal(s[j + 1]) * 16 + HexVal(s[j + 2])
     IN IF ~EscapeAt(i) THEN Err(ErrURI, ErrURI)
        ELSE
         LET b == ByteAt(i)
             n == IF b < 128 THEN 1
                  ELSE IF b \in 192..223 THEN 2
                  ELSE IF b \in 224..239 THEN 3
                  ELSE IF b \in 240..247 THEN 4
                  ELSE 0
         IN IF n = 0 \/ \E k \in 1..(n - 1) : ~EscapeAt(i + 3 * k)
            THEN Err(ErrURI, ErrURI)
            ELSE
             LET bytes == [k \in 1..n |-> ByteAt(i + 3 * (k - 1))]
                 units == Utf8Decode(bytes, 1, 0, 0, 0, 128, 191)
                 rest == UriDecodeFrom(s, i + 3 * n)
             IN IF Includes(units, REPLACEMENT) /\ bytes # <<239, 191, 189>>
                THEN Err(ErrURI, ErrURI)
                ELSE IF rest.ok THEN Val(units \o rest.val) ELSE rest

decodeURIComponent(s) == UriDecodeFrom(s, 1)

\* s with every occurrence of pat removed, left to right
RECURSIVE RemoveAll(_, _)
RemoveAll(s, pat) ==
    IF Len(s) < Len(pat) THEN s
    ELSE IF SubSeq(s, 1, Len(pat)) = pat
         THEN RemoveAll(SubSeq(s, Len(pat) + 1, Len(s)), pat)
         ELSE <<Head(s)>> \o RemoveAll(Tail(s), pat)

\* .replace(/=([0-9A-Fa-f]{2})/g, (m, hex) => String.fromCharCode(parseInt(hex, 16)))
RECURSIVE ReplaceQpEscapes(_)
ReplaceQpEscapes(s) ==
    IF s = <<>> THEN <<>>
    ELSE IF Len(s) >= 3 /\ s[1] = EQUALS /\ IsHexChar(s[2]) /\ IsHexChar(s[3])
         THEN <<HexVal(s[2]) * 16 + HexVal(s[3])>>
              \o ReplaceQpEscapes(SubSeq(s, 4, Len(s)))
         ELSE <<Head(s)>> \o ReplaceQpEscapes(Tail(s))

\* The pattern of the first replace is written /=\\r\\n/ in the source: it
\* matches '=', a backslash, 'r', a backslash, 'n', not a line break.
QpSoftBreak == <<61, 92, 114, 92, 110>>

decodeQuotedPrintable(input) ==
    ReplaceQpEscapes(RemoveAll(input, QpSoftBreak))

\* base85Alphabet (line 17): 0-9, A-Z, a-z, then !#$%&()*+-;<=>?@^_`{|}~
base85Alphabet ==
    <<
      48, 49, 50, 51, 52, 53, 54, 55, 56, 57, 65, 66, 67, 68, 69, 70, 71,
      72, 73, 74, 75, 76, 77, 78, 79, 80, 81, 82, 83, 84, 85, 86, 87, 88,
      89, 90, 97, 98, 99, 100, 101, 102, 103, 104, 105, 106, 107, 108, 109,
      110, 111, 112, 113, 114, 115, 116, 117, 118, 119, 120, 121, 122, 33,
      35, 36, 37, 38, 40, 41, 42, 43, 45, 59, 60, 61, 62, 63, 64, 94, 95,
      96, 123, 124, 125, 126
    >>

\* the text that undefined becomes when it is added to a string
UndefinedText == <<117, 110, 100, 101, 102, 105, 110, 101, 100>>

\* a % b of the code for b > 0: the remainder has the sign of a
JsRemainder(a, b) ==
    LET m == a % b
    IN IF a >= 0 \/ m = 0 THEN m ELSE m - b

\* (p[0] << 24) | (p[1] << 16) | (p[2] << 8) | p[3], a signed 32-bit integer
Int32OfBytes(p) ==
    (IF p[1] >= 128 THEN p[1] - 256 ELSE p[1]) * 16777216
      + (p[2] * 65536) + (p[3] * 256) + p[4]

\* base85Alphabet[index]: undefined when index is negative
AlphabetAt(index) ==
    IF index >= 0 THEN <<base85Alphabet[index + 1]>> ELSE UndefinedText

\* the loop of five steps that writes value in base 85, last digit first
RECURSIVE EncodeDigits(_, _, _)
EncodeDigits(value, j, encoded) ==
    IF j = 5 THEN encoded
    ELSE EncodeDigits(value \div 85, j + 1,
                      AlphabetAt(JsRemainder(value, 85)) \o encoded)

\* the text that encodeBase85 adds for one chunk of 1 to 4 bytes
EncodeChunk(chunk) ==
    LET paddedChunk == [j \in 1..4 |-> IF j <= Len(chunk) THEN chunk[j] ELSE 0]
        value == Int32OfBytes(paddedChunk)
    IN IF value = 0 /\ Len(chunk) = 4 THEN <<122>>
       ELSE Substr(EncodeDigits(value, 0, <<>>), 0, Len(chunk) + 1)

RECURSIVE EncodeChunksFrom(_, _)
EncodeChunksFrom(bytes, i) ==
    IF i >= Len(bytes) THEN <<>>
    ELSE EncodeChunk(Substr(bytes, i, 4)) \o EncodeChunksFrom(bytes, i + 4)

encodeBase85(input) == EncodeChunksFrom(TextEncode(input), 0)

ErrBase85 == "Invalid Base85 character"

\* base85Alphabet.indexOf(c)
Base85IndexOf(c) ==
    IF \E j \in 1..85 : base85Alphabet[j] = c
    THEN (CHOOSE j \in 1..85 : base85Alphabet[j] = c) - 1
    ELSE -1

\* value = value * 85 + index over the characters of a chunk; the number is
\* kept as hi * 65536 + lo (it may pass 2^31), -1 for a character outside
\* the alphabet
RECURSIVE ChunkValue(_, _, _, _)
ChunkValue(chunk, j, hi, lo) ==
    IF j > Len(chunk) THEN [hi |-> hi, lo |-> lo]
    ELSE LET index == Base85IndexOf(chunk[j])
             low == (lo * 85) + index
         IN IF index = -1 THEN [hi |-> -1, lo |-> -1]
            ELSE ChunkValue(chunk, j + 1, (hi * 85) + (low \div 65536),
                            low % 65536)

\* (value >> (j * 8)) & 0xFF for j = 3, 2, 1, 0
BytesOfValue(v) ==
    <<(v.hi \div 256) % 256, v.hi % 256, v.lo \div 256, v.lo % 256>>

\* the text added for the sentinel: written '\\0\\0\\0\\0' in the source,
\* which is a backslash and a zero four times, not four characters of code 0
SentinelText == <<92, 48, 92, 48, 92, 48, 92, 48>>

RECURSIVE DecodeBase85From(_, _, _)
DecodeBase85From(input, i, result) ==
    IF i >= Len(input) THEN Val(result)
    ELSE IF input[i + 1] = 122
    THEN DecodeBase85From(input, i + 1, result \o SentinelText)
    ELSE LET chunk == Substr(input, i, 5)
             value == ChunkValue(chunk, 1, 0, 0)
         IN IF value.hi = -1 THEN Err(ErrBase85, "Error")
            ELSE DecodeBase85From(input, i + 5,
                    result \o SubSeq(BytesOfValue(value), 1, Len(chunk) - 1))

decodeBase85(input) == DecodeBase85From(input, 0, <<>>)

\* caesarEncode: a letter moves shift places from the base of its case, with
\* the % of the code, so a negative sum leaves the alphabet
caesarEncode(text, shift) ==
    [j \in 1..Len(text) |->
        IF IsLetter(text[j])
        THEN LET base == IF text[j] <= 90 THEN 65 ELSE 97
             IN JsRemainder((text[j] - base) + shift, 26) + base
        ELSE text[j]]

caesarDecode(text, shift) == caesarEncode(text, 26 - shift)

\* The html case: div.innerHTML = input, then div.textContent.  Modelled for
\* texts without '<' whose only character references are the five that the
\* tool's own encoder writes; any other '&' is kept as text.
HtmlReferences ==
    {<<<<38, 108, 116, 59>>, 60>>, <<<<38, 103, 116, 59>>, 62>>,
     <<<<38, 97, 109, 112, 59>>, 38>>, <<<<38, 113, 117, 111, 116, 59>>, 34>>,
     <<<<38, 35, 51, 57, 59>>, 39>>}

RECURSIVE HtmlText(_)
HtmlText(s) ==
    IF s = <<>> THEN <<>>
    ELSE LET hits == {e \in HtmlReferences :
                         /\ Len(e[1]) <= Len(s)
                         /\ SubSeq(s, 1, Len(e[1])) = e[1]}
         IN IF hits = {} THEN <<Head(s)>> \o HtmlText(Tail(s))
            ELSE LET e == CHOOSE h \in hits : TRUE
                 IN <<e[2]>> \o HtmlText(SubSeq(s, Len(e[1]) + 1, Len(s)))

ErrJSON == "Unexpected token in JSON"
ErrJWT == "Invalid JWT format"

\* JSON.stringify(JSON.parse(text), null, 2), modelled for texts that are an
\* integer, true, false or null (white space around them allowed) and for
\* texts that are not JSON at all; strings, arrays and objects do not occur
\* in the inputs of this model.
JsonReformat(text) ==
    LET t == SelectSeq(text, LAMBDA c : ~(c \in {9, 10, 13, 32}))
        inner == IF t # <<>> /\ t[1] = 45 THEN Tail(t) ELSE t
        isInt == /\ inner # <<>>
                 /\ \A j \in 1..Len(inner) : IsDigit(inner[j])
                 /\ (Len(inner) > 1 => inner[1] # 48)
                 /\ Trim(text) = t
    IN IF isInt THEN Val(IF inner = <<48>> THEN inner ELSE t)
       ELSE IF t \in {<<116, 114, 117, 101>>, <<102, 97, 108, 115, 101>>,
                      <<110, 117, 108, 108>>} /\ Trim(text) = t
       THEN Val(t)
       ELSE Err(ErrJSON, ErrJSON)

decodeJWT(token) ==
    LET parts == Split(token, DOT)
    IN IF Len(parts) # 3 THEN Err(ErrJWT, ErrJWT)
       ELSE LET payload == [j \in 1..Len(parts[2]) |->
                               IF parts[2][j] = 45 THEN 43
                               ELSE IF parts[2][j] = 95 THEN 47
                               ELSE parts[2][j]]
                padding == [j \in 1..((4 - (Len(payload) % 4)) % 4) |->
                               EQUALS]
                bytes == atob(payload \o padding)
            IN IF ~bytes.ok THEN bytes ELSE JsonReformat(bytes.val)

ErrGzip == "Decompression failed"

\* CompressionUtils.decompressLZ: atob, then a gzip DecompressionStream.  A
\* gzip stream starts with the bytes 1F 8B and is at least 20 bytes long;
\* every other byte sequence makes the stream fail.  Inputs that decode to
\* a well-formed gzip stream do not occur in this model.
decompressLZ(compressedBase64) ==
    LET bytes == atob(compressedBase64)
    IN IF ~bytes.ok THEN bytes ELSE Err(ErrGzip, ErrGzip)

(***************************************************************************)
(* src/unnamed/part_000 : ErrorHandler.validateInput and DetectionEngine   *)
(***************************************************************************)
MaxInputSize == 1048576

ErrTooLarge == "Input is too large (max 1MB)"
ErrBase64Format == "Invalid Base64 format"
ErrBase64Length == "Invalid Base64 length"
ErrHexFormat == "Invalid hexadecimal format"
ErrBinaryFormat == "Invalid binary format"

\* a length check that lets every length pass
TooLargeNever(length) == FALSE

\* input.length > 1048576
TooLarge(length) == length > MaxInputSize

\* validateInput for a text of the given length.  The length is a parameter
\* of its own because a text too long to write out is written as a short
\* text and the number of further copies of its last character that follow
\* it (dPad); only the length check ever sees such a text.
validateInputOfLength(input, length, type) ==
    IF TooLarge(length) THEN Err(ErrTooLarge, "INVALID_INPUT")
    ELSE IF type = "base64" /\ ~MatchesBase64(input)
    THEN Err(ErrBase64Format, "INVALID_INPUT")
    ELSE IF type = "base64" /\ Len(input) % 4 # 0
    THEN Err(ErrBase64Length, "INVALID_INPUT")
    ELSE IF type = "hex" /\ ~MatchesGroups(Trim(input), 2, HexChars, FALSE)
    THEN Err(ErrHexFormat, "INVALID_INPUT")
    ELSE IF type = "binary"
            /\ ~MatchesGroups(Trim(input), 8, BinaryChars, FALSE)
    THEN Err(ErrBinaryFormat, "INVALID_INPUT")
    ELSE Val(<<>>)

validateInput(input, type) == validateInputOfLength(input, Len(input), type)

\* Confidence values are IEEE doubles in the code.  A double is written here
\* as an integer number of ten-thousandths: 5000 is 0.5, 8000 is 0.8, and
\* 7999, 8999, 9999 are the doubles 0.7999999999999999, 0.8999999999999999
\* and 0.9999999999999999 that the additions below round to.
Confidence(tenths) == tenths * 1000

\* c + add in double arithmetic, for the sums calculateConfidence forms:
\* 0.7 + 0.1, 0.6 + 0.3 and 0.7 + 0.2 round below the decimal sum, every
\* other sum is the double nearest to the decimal sum
FloatAdd(c, add) ==
    IF <<c, add>> \in {<<7000, 1000>>, <<6000, 3000>>, <<7000, 2000>>}
    THEN c + add - 1
    ELSE c + add

\* /^[\x20-\x7E\s]*$/
IsPrintable(result) ==
    \A j \in 1..Len(result) :
       result[j] \in 32..126 \/ result[j] \in WhiteSpace

\* the type-specific adjustment of calculateConfidence
TypeBonus(input, type) ==
    IF type = "base64" /\ Len(input) % 4 = 0 /\ MatchesBase64(input)
    THEN Confidence(3)
    ELSE IF type = "hex" /\ MatchesGroups(Trim(input), 2, HexChars, TRUE)
    THEN Confidence(3)
    ELSE IF type = "url" /\ Includes(input, 37) /\ HasEscape(input, 37)
    THEN Confidence(2)
    ELSE IF type = "morse" /\ MatchesMorse(input) /\ Includes(input, 46)
            /\ Includes(input, 45)
    THEN Confidence(3)
    ELSE 0

\* calculateConfidence without Math.min(confidence, 1.0)
calculateConfidenceNoMin(input, result, type) ==
    IF result = <<>> \/ result = input THEN 0
    ELSE LET c0 == Confidence(5)
             c1 == IF Len(input) > 10 THEN FloatAdd(c0, Confidence(1)) ELSE c0
             c2 == IF Len(input) > 50 THEN FloatAdd(c1, Confidence(1)) ELSE c1
             bonus == TypeBonus(input, type)
             c3 == IF bonus # 0 THEN FloatAdd(c2, bonus) ELSE c2
         IN IF IsPrintable(result) THEN FloatAdd(c3, Confidence(1)) ELSE c3

calculateConfidence(input, result, type) ==
    IF result = <<>> \/ result = input THEN 0
    ELSE LET c0 == Confidence(5)
             c1 == IF Len(input) > 10 THEN FloatAdd(c0, Confidence(1)) ELSE c0
             c2 == IF Len(input) > 50 THEN FloatAdd(c1, Confidence(1)) ELSE c1
             bonus == TypeBonus(input, type)
             c3 == IF bonus # 0 THEN FloatAdd(c2, bonus) ELSE c2
             c4 == IF IsPrintable(result) THEN FloatAdd(c3, Confidence(1))
                   ELSE c3
         IN Min(c4, Confidence(10))

\* an includes that finds everything
InArrayAnything(array, x) == TRUE

\* Array.prototype.includes on an array of texts
InArray(array, x) == \E j \in 1..Len(array) : array[j] = x

\* the threshold of a sensitivity tier; unknown tiers get 0.5
MinConfidence(sensitivity) ==
    IF sensitivity = "strict" THEN Confidence(8)
    ELSE IF sensitivity = "medium" THEN Confidence(5)
    ELSE IF sensitivity = "loose" THEN Confidence(2)
    ELSE Confidence(5)

\* minConfidence is computed at lines 182-186 and never read
shouldAttemptDecoding(input, type, settings) ==
    LET minConfidence == MinConfidence(settings.detectionSensitivity)
    IN IF ~settings.autoDetect THEN FALSE
       ELSE IF Len(settings.enabledEncodings) > 0
               /\ ~InArray(settings.enabledEncodings, type)
       THEN FALSE
       ELSE IF type = "base64"
       THEN MatchesBase64(input) /\ Len(input) % 4 = 0
       ELSE IF type = "hex"
       THEN MatchesGroups(Trim(input), 2, HexChars, TRUE)
       ELSE IF type = "binary"
       THEN MatchesGroups(Trim(input), 8, BinaryChars, TRUE)
       ELSE IF type = "url"
       THEN Includes(input, 37) /\ HasEscape(input, 37)
       ELSE IF type = "morse" THEN MatchesMorse(input)
       ELSE TRUE

(***************************************************************************)
(* src/unnamed/part_000 : detectAndDecode                                  *)
(***************************************************************************)
\* the types of encodingTests, in the order they are tried
encodingTests ==
    <<"jwt", "base64", "base32", "base85", "hex", "binary", "url", "morse",
      "ascii", "html", "quoted-printable", "compress", "rot13">>

\* The test of base85 is the literal
\*     /^[0-9A-Za-z!#$%&()*+\\-;<=>?@^_`{|}~z]*$/
\* whose class holds the range \\-; from the backslash (92) down to ';'
\* (59).  A range out of order is a SyntaxError of the pattern, so the test
\* cannot answer: evaluating it throws.  (An engine that checks literals
\* when it parses the script rejects the script before; the model takes the
\* engine that throws when the literal is evaluated, the only one in which
\* the scan runs at all.)
EncodingTestThrows(type) == type = "base85"

\* the test() of an entry of encodingTests
EncodingTest(type, input) ==
    IF type = "jwt"
    THEN Includes(input, DOT) /\ Len(Split(input, DOT)) = 3
    ELSE IF type = "base64" THEN MatchesBase64(input) /\ Len(input) % 4 = 0
    ELSE IF type = "base32" THEN MatchesBase32(input)
    ELSE IF type = "hex" THEN MatchesGroups(Trim(input), 2, HexChars, TRUE)
    ELSE IF type = "binary"
    THEN MatchesGroups(Trim(input), 8, BinaryChars, TRUE)
    ELSE IF type = "url" THEN Includes(input, 37) /\ HasEscape(input, 37)
    ELSE IF type = "morse" THEN MatchesMorse(input)
    ELSE IF type = "ascii" THEN MatchesAscii(Trim(input))
    ELSE IF type = "html" THEN Includes(input, 38) /\ Includes(input, 59)
    ELSE IF type = "quoted-printable"
    THEN Includes(input, EQUALS) /\ HasEscape(input, EQUALS)
    ELSE IF type = "compress" THEN MatchesBase64(input)
    ELSE IF type = "rot13" THEN \E j \in 1..Len(input) : IsLetter(input[j])
    ELSE FALSE

\* typeName of a case of the switch
TypeName(type) ==
    CASE type = "jwt" -> "JWT (JSON Web Token)"
      [] type = "base64" -> "Base64"
      [] type = "base32" -> "Base32"
      [] type = "base85" -> "Base85"
      [] type = "hex" -> "Hexadecimal"
      [] type = "binary" -> "Binary"
      [] type = "url" -> "URL Encoding"
      [] type = "morse" -> "Morse Code"
      [] type = "ascii" -> "ASCII Codes"
      [] type = "html" -> "HTML Entities"
      [] type = "quoted-printable" -> "Quoted-Printable"
      [] type = "compress" -> "LZ Compressed"
      [] type = "rot13" -> "ROT13"

\* the switch of lines 1205-1272: the decoded text, or the error thrown.
\* (The scan never enters the base85 case, its test() throws before, at
\* line 1199.)
DecodeCase(type, input) ==
    IF type = "jwt" THEN decodeJWT(input)
    ELSE IF type = "base64"
    THEN LET v == validateInput(input, "base64")
         IN IF ~v.ok THEN v ELSE atob(input)
    ELSE IF type = "base32" THEN decodeBase32(input)
    ELSE IF type = "hex"
    THEN LET v == validateInput(input, "hex")
         IN IF ~v.ok THEN v ELSE Val(DecodeTokens(input, 16))
    ELSE IF type = "binary"
    THEN LET v == validateInput(input, "binary")
         IN IF ~v.ok THEN v ELSE Val(DecodeTokens(input, 2))
    ELSE IF type = "url" THEN decodeURIComponent(input)
    ELSE IF type = "morse" THEN Val(decodeMorse(input))
    ELSE IF type = "ascii" THEN Val(DecodeTokens(input, 10))
    ELSE IF type = "html" THEN Val(HtmlText(input))
    ELSE IF type = "quoted-printable" THEN Val(decodeQuotedPrintable(input))
    ELSE IF type = "compress" THEN decompressLZ(input)
    ELSE IF type = "rot13" THEN Val(Rot13(input))
    ELSE IF type = "base85" THEN decodeBase85(input)
    ELSE Val(<<>>)

\* every type but base85 ticked in the settings panel
AllButBase85 == SelectSeq(encodingTests, LAMBDA t : t # "base85")

\* the settings a user may have saved (updateSettings, lines 659-702)
SettingsChoices ==
    [autoDetect : BOOLEAN,
     detectionSensitivity : {"strict", "medium", "loose"},
     enabledEncodings : {<<>>, AllButBase85, <<"rot13">>}]

\* longest text over InputChars typed into the decode input
MaxInputLen == 2

\* '4', 'a', '.', '-', '&', ';'
InputChars == {52, 97, 46, 45, 38, 59}

SampleInputs ==
    {
     \* "SGVsbG8=": base64 of "Hello"
     <<83, 71, 86, 115, 98, 71, 56, 61>>,
     \* "SGVsbG8gV29ybGQ=": base64 of "Hello World", longer than 10
     <<83, 71, 86, 115, 98, 71, 56, 103, 86, 50, 57, 121, 98, 71, 81, 61>>,
     \* "QUJDQUJD...": base64 of "ABC" 13 times, longer than 50
     <<81, 85, 74, 68, 81, 85, 74, 68, 81, 85, 74, 68, 81, 85, 74, 68, 81,
       85, 74, 68, 81, 85, 74, 68, 81, 85, 74, 68, 81, 85, 74, 68, 81, 85,
       74, 68, 81, 85, 74, 68, 81, 85, 74, 68, 81, 85, 74, 68, 81, 85, 74,
       68>>,
     \* "... --- ...": Morse of "SOS"
     <<46, 46, 46, 32, 45, 45, 45, 32, 46, 46, 46>>,
     \* "-.-.-.-": Morse shape, no known code
     <<45, 46, 45, 46, 45, 46, 45>>,
     \* "48 65": hex pairs with a separator
     <<52, 56, 32, 54, 53>>,
     \* "4865": hex pairs without separator
     <<52, 56, 54, 53>>,
     \* "01001000 01101001": binary of "Hi"
     <<48, 49, 48, 48, 49, 48, 48, 48, 32, 48, 49, 49, 48, 49, 48, 48, 49>>,
     \* "%41%42": URL escapes of "AB"
     <<37, 52, 49, 37, 52, 50>>,
     \* "%E9": URL escape that is not UTF-8
     <<37, 69, 57>>,
     \* "72 105": ASCII codes of "Hi"
     <<55, 50, 32, 49, 48, 53>>,
     \* "&amp;": HTML reference
     <<38, 97, 109, 112, 59>>,
     \* "a&b;": HTML shape without a reference
     <<97, 38, 98, 59>>,
     \* "=41": quoted-printable escape
     <<61, 52, 49>>,
     \* "abc": letters
     <<97, 98, 99>>,
     \* "MFRGG===": base32 of "abc"
     <<77, 70, 82, 71, 71, 61, 61, 61>>,
     \* "a.MQ.b": token of three parts, payload 1
     <<97, 46, 77, 81, 46, 98>>,
     \* "   ": white space only
     <<32, 32, 32>>
    }

DetectInputs == SampleInputs \cup SeqsUpTo(InputChars, MaxInputLen)

\* how many further copies of its last character follow a typed text: none,
\* or so many that the text is longer than validateInput allows
InputPads == {0, MaxInputSize}

DetectInit ==
    /\ appSettings \in SettingsChoices
    /\ dInput = <<>>
    /\ dPad = 0
    /\ dStatus = "idle"
    /\ dIndex = 0
    /\ results = <<>>
    /\ bestResult = Null
    /\ bestType = NullType
    /\ bestConfidence = 0
    /\ attempted = <<>>
    /\ codecCall = NoCodecCall
    /\ codecRet = NoCodecRet
    /\ cipherCall = NoCall
    /\ cipherRet = Val(<<>>)
    /\ sent = NoFrame
    /\ encodeInput = <<>>
    /\ encodingSelect = "base64"
    /\ decodeInput = <<>>
    /\ encodeResult = <<>>
    /\ decodeResult = <<>>
    /\ batchItems = <<>>
    /\ totalOps = 0
    /\ notifications = 0
    /\ batchPc = "idle"
    /\ batchLines = <<>>
    /\ batchOperation = "encode"
    /\ batchEncoding = "base64"
    /\ started = 0
    /\ callbacks = <<>>
    /\ pendingDigests = {}
    /\ microtasks = <<>>
    /\ processedCount = 0
    /\ preBatch = NoBatch
    /\ history = <<>>
    /\ clock = 0
    /\ historyCall = NoHistoryCall
    /\ historyCalls = 0

\* detectAndDecode up to the loop (lines 1148-1191): nothing happens for a
\* blank input; an input that validateInput refuses ends in the outer catch
DetectStart(input, pad) ==
    /\ dStatus = "idle"
    /\ pad > 0 => input # <<>>
    /\ dInput' = input
    /\ dPad' = pad
    /\ IF Trim(input) = <<>>
       THEN /\ dStatus' = "skipped"
            /\ UNCHANGED <<dIndex, results, bestResult, bestType,
                           bestConfidence>>
       ELSE IF ~validateInputOfLength(input, Len(input) + pad, "general").ok
       THEN /\ dStatus' = "error"
            /\ UNCHANGED <<dIndex, results, bestResult, bestType,
                           bestConfidence>>
       ELSE /\ dStatus' = "scanning"
            /\ dIndex' = 1
            /\ results' = <<>>
            /\ bestResult' = Null
            /\ bestType' = NullType
            /\ bestConfidence' = 0
    /\ UNCHANGED <<appSettings, attempted>>
    /\ UNCHANGED <<cipherVars, codecVars, pageVars>>

\* the comparison with >= in place of >
BeatsBestOrTies(confidence, best) == confidence >= best

\* if (confidence > bestConfidence)
BeatsBest(confidence, best) == confidence > best

\* the test without result !== input
AcceptedAnyText(result, input) == result # <<>>

\* if (result && result !== input)
Accepted(result, input) == result # <<>> /\ result # input

\* the loop body without the try and catch of lines 1201 and 1291
IterationOutcomeNoCatch(type, input, settings) ==
    LET decoded == DecodeCase(type, input)
    IN IF ~shouldAttemptDecoding(input, type, settings) THEN "continue"
       ELSE IF EncodingTestThrows(type) THEN "throw"
       ELSE IF ~EncodingTest(type, input) THEN "continue"
       ELSE IF ~decoded.ok THEN "throw"
       ELSE IF Accepted(decoded.val, input) THEN "accept"
       ELSE "continue"

\* What one iteration of the loop does with a type (lines 1195-1296):
\* "continue" when shouldAttemptDecoding or test() says no, or when the
\* decoded text is empty or the input itself; "throw" when test() throws,
\* which nothing inside the loop catches; "caught" when the decode throws
\* inside the try of line 1201; "accept" when the result is recorded
IterationOutcome(type, input, settings) ==
    LET decoded == DecodeCase(type, input)
    IN IF ~shouldAttemptDecoding(input, type, settings) THEN "continue"
       ELSE IF EncodingTestThrows(type) THEN "throw"
       ELSE IF ~EncodingTest(type, input) THEN "continue"
       ELSE IF ~decoded.ok THEN "caught"
       ELSE IF Accepted(decoded.val, input) THEN "accept"
       ELSE "continue"

\* the iteration entered the try of line 1201 and ran the switch
RanSwitch(type, input, settings) ==
    /\ shouldAttemptDecoding(input, type, settings)
    /\ ~EncodingTestThrows(type)
    /\ EncodingTest(type, input)

\* one iteration of the loop over encodingTests (lines 1194-1297)
DetectStep ==
    /\ dStatus = "scanning"
    /\ dIndex \in 1..Len(encodingTests)
    /\ LET type == encodingTests[dIndex]
           outcome == IterationOutcome(type, dInput, appSettings)
           result == DecodeCase(type, dInput).val
           confidence == calculateConfidence(dInput, result, type)
       IN /\ attempted' = IF RanSwitch(type, dInput, appSettings)
                          THEN Append(attempted, type) ELSE attempted
          /\ IF outcome = "throw"
             THEN /\ dStatus' = "error"
                  /\ UNCHANGED <<dIndex, results, bestResult, bestType,
                                 bestConfidence>>
             ELSE IF outcome = "accept"
             THEN /\ dIndex' = dIndex + 1
                  /\ results' = Append(results,
                                       [result |-> result,
                                        type |-> TypeName(type),
                                        confidence |-> confidence,
                                        originalType |-> type])
                  /\ IF BeatsBest(confidence, bestConfidence)
                     THEN /\ bestResult' = result
                          /\ bestType' = TypeName(type)
                          /\ bestConfidence' = confidence
                     ELSE UNCHANGED <<bestResult, bestType, bestConfidence>>
                  /\ UNCHANGED dStatus
             ELSE /\ dIndex' = dIndex + 1
                  /\ UNCHANGED <<dStatus, results, bestResult, bestType,
                                 bestConfidence>>
    /\ UNCHANGED <<appSettings, dInput, dPad>>
    /\ UNCHANGED <<cipherVars, codecVars, pageVars>>

\* after the loop (lines 1299-1331): the best result is shown, or the
\* warning that no encoding was detected
DetectFinish ==
    /\ dStatus = "scanning"
    /\ dIndex = Len(encodingTests) + 1
    /\ dStatus' = "done"
    /\ UNCHANGED <<appSettings, dInput, dPad, dIndex, results, bestResult,
                   bestType, bestConfidence, attempted>>
    /\ UNCHANGED <<cipherVars, codecVars, pageVars>>

DetectNext ==
    \/ \E input \in DetectInputs, pad \in InputPads : DetectStart(input, pad)
    \/ DetectStep
    \/ DetectFinish

\* longest text handed to encodeBase85
MaxBase85Len == 5

\* the characters of code 0, 'a' and U+00E9 (bytes C3 A9 in UTF-8)
Base85Chars == {0, 97, 233}

\* longest text handed to caesarEncode
MaxCaesarLen == 2

\* 'a', 'z', 'A', 'Z', '-'
CaesarChars == {97, 122, 65, 90, 45}

\* shifts a caller may hand over (parseInt of the caesar-shift field)
CaesarShifts == {-27, -1, 0, 1, 3, 13, 25, 26, 27, 52}

\* most pairs in a text handed to the hex decode
MaxHexPairs == 3

\* "41", "42", "e9"
HexPairs == {<<52, 49>>, <<52, 50>>, <<101, 57>>}

\* the sequences of 1 to MaxHexPairs pairs
PairLists == SeqsUpTo(HexPairs, MaxHexPairs) \ {<<>>}

\* '' and ' '
PairSeparators == {<<>>, <<32>>}

\* longest text handed to encodeBase32
MaxBase32Len == 5

\* the characters of code 0, 'a', U+00E9 and U+00FF
Base32Chars == {0, 97, 233, 255}

CodecInit ==
    /\ codecCall = NoCodecCall
    /\ codecRet = NoCodecRet
    /\ cipherCall = NoCall
    /\ cipherRet = Val(<<>>)
    /\ sent = NoFrame
    /\ appSettings = DefaultSettings
    /\ dInput = <<>>
    /\ dPad = 0
    /\ dStatus = "idle"
    /\ dIndex = 0
    /\ results = <<>>
    /\ bestResult = Null
    /\ bestType = NullType
    /\ bestConfidence = 0
    /\ attempted = <<>>
    /\ encodeInput = <<>>
    /\ encodingSelect = "base64"
    /\ decodeInput = <<>>
    /\ encodeResult = <<>>
    /\ decodeResult = <<>>
    /\ batchItems = <<>>
    /\ totalOps = 0
    /\ notifications = 0
    /\ batchPc = "idle"
    /\ batchLines = <<>>
    /\ batchOperation = "encode"
    /\ batchEncoding = "base64"
    /\ started = 0
    /\ callbacks = <<>>
    /\ pendingDigests = {}
    /\ microtasks = <<>>
    /\ processedCount = 0
    /\ preBatch = NoBatch
    /\ history = <<>>
    /\ clock = 0
    /\ historyCall = NoHistoryCall
    /\ historyCalls = 0

\* decodeBase85(encodeBase85(input))
Base85Call(input) ==
    LET encoded == encodeBase85(input)
    IN /\ codecCall.op = "none"
       /\ codecCall' = [op |-> "base85", text |-> input, shift |-> 0]
       /\ codecRet' = [encoded |-> encoded, decoded |-> decodeBase85(encoded)]
       /\ UNCHANGED <<cipherVars, detectVars, pageVars>>

\* caesarDecode(caesarEncode(text, shift), shift)
CaesarCall(text, shift) ==
    LET encoded == caesarEncode(text, shift)
    IN /\ codecCall.op = "none"
       /\ codecCall' = [op |-> "caesar", text |-> text, shift |-> shift]
       /\ codecRet' = [encoded |-> encoded,
                       decoded |-> Val(caesarDecode(encoded, shift))]
       /\ UNCHANGED <<cipherVars, detectVars, pageVars>>

\* the hex case of the decode switch on pairs written with a separator
HexDecodeCall(pairs, separator) ==
    LET input == Join(pairs, separator)
    IN /\ codecCall.op = "none"
       /\ codecCall' = [op |-> "hex", text |-> input, shift |-> 0]
       /\ codecRet' = [encoded |-> input, decoded |-> DecodeCase("hex", input)]
       /\ UNCHANGED <<cipherVars, detectVars, pageVars>>

\* decodeBase32(encodeBase32(input))
Base32Call(input) ==
    LET encoded == encodeBase32(input)
    IN /\ codecCall.op = "none"
       /\ codecCall' = [op |-> "base32", text |-> input, shift |-> 0]
       /\ codecRet' = [encoded |-> encoded, decoded |-> decodeBase32(encoded)]
       /\ UNCHANGED <<cipherVars, detectVars, pageVars>>

CodecNext ==
    \/ \E input \in SeqsUpTo(Base85Chars, MaxBase85Len) : Base85Call(input)
    \/ \E text \in SeqsUpTo(CaesarChars, MaxCaesarLen), shift \in CaesarShifts :
          CaesarCall(text, shift)
    \/ \E pairs \in PairLists, separator \in PairSeparators :
          HexDecodeCall(pairs, separator)
    \/ \E input \in SeqsUpTo(Base32Chars, MaxBase32Len) : Base32Call(input)

(***************************************************************************)
(* src/unnamed/part_000 : processBatch and the callbacks of lines.forEach. *)
(* forEach calls the async callback of each line in turn; a call runs to   *)
(* its first await and returns, so every callback has started before any   *)
(* of them resumes.  Resumptions are microtasks, run first in first out    *)
(* once processBatch has returned.                                         *)
(***************************************************************************)
\* most lines in a batch
MaxBatchLines == 3

\* "a", "b"
BatchLineTexts == {<<97>>, <<98>>}

\* the lines left of batch-input by split('\n').filter(line => line.trim()),
\* none when the input is blank
BatchInputs == SeqsUpTo(BatchLineTexts, MaxBatchLines)

\* values of batch-encoding: one scheme encode computes at once and one it
\* awaits (crypto.subtle.digest)
BatchEncodings == {"base32", "sha256"}

\* the case of the switch of encode holds an await
EncodeAwaits(encoding) == encoding = "sha256"

\* the text encode hands to showOutput: encodeBase32(input), or the digest of
\* input, which is kept as a text that names input ('#' and input) since
\* only which line it belongs to is observed
EncodeResultOf(encoding, input) ==
    IF encoding = "base32" THEN encodeBase32(input) ELSE <<35>> \o input

\* 'Encoding failed'
EncodingFailedText ==
    <<69, 110, 99, 111, 100, 105, 110, 103, 32, 102, 97, 105, 108, 101, 100>>

\* 'No encoding detected'
NoEncodingDetectedText ==
    <<78, 111, 32, 101, 110, 99, 111, 100, 105, 110, 103, 32, 100, 101, 116,
      101, 99, 116, 101, 100>>

\* the loop of detectAndDecode from trial j on: the best result after the
\* loop, Null when there is none or when the loop is left by an exception
RECURSIVE ScanFrom(_, _, _, _, _)
ScanFrom(input, settings, j, best, bestConf) ==
    IF j > Len(encodingTests) THEN best
    ELSE LET type == encodingTests[j]
             outcome == IterationOutcome(type, input, settings)
             result == DecodeCase(type, input).val
             confidence == calculateConfidence(input, result, type)
         IN IF outcome = "throw" THEN Null
            ELSE IF outcome = "accept" /\ BeatsBest(confidence, bestConf)
            THEN ScanFrom(input, settings, j + 1, result, confidence)
            ELSE ScanFrom(input, settings, j + 1, best, bestConf)

\* what detectAndDecode(true) hands to showOutput for a line that is not
\* blank, Null when it shows nothing
DetectShown(input, settings) ==
    IF ~validateInput(input, "general").ok THEN Null
    ELSE ScanFrom(input, settings, 1, Null, 0)

\* settings of a batch run: as first loaded, and with rot13 alone enabled
BatchSettings ==
    {DefaultSettings,
     [autoDetect |-> TRUE, detectionSensitivity |-> "medium",
      enabledEncodings |-> <<"rot13">>]}

BatchInit ==
    /\ encodeInput \in {<<>>, <<120>>}
    /\ encodingSelect \in {"base64", "base32"}
    /\ decodeInput \in {<<>>, <<121>>}
    /\ encodeResult = <<>>
    /\ decodeResult = <<>>
    /\ batchItems = <<>>
    /\ totalOps = 0
    /\ notifications = 0
    /\ batchPc = "idle"
    /\ batchLines = <<>>
    /\ batchOperation = "encode"
    /\ batchEncoding = "base64"
    /\ started = 0
    /\ callbacks = <<>>
    /\ pendingDigests = {}
    /\ microtasks = <<>>
    /\ processedCount = 0
    /\ preBatch = NoBatch
    /\ history = <<>>
    /\ clock = 0
    /\ historyCall = NoHistoryCall
    /\ historyCalls = 0
    /\ appSettings \in BatchSettings
    /\ dInput = <<>>
    /\ dPad = 0
    /\ dStatus = "idle"
    /\ dIndex = 0
    /\ results = <<>>
    /\ bestResult = Null
    /\ bestType = NullType
    /\ bestConfidence = 0
    /\ attempted = <<>>
    /\ cipherCall = NoCall
    /\ cipherRet = Val(<<>>)
    /\ sent = NoFrame
    /\ codecCall = NoCodecCall
    /\ codecRet = NoCodecRet

\* processBatch up to lines.forEach (lines 1359-1377): a blank input is
\* refused with a message, otherwise batch-results is emptied and the lines
\* are counted
ProcessBatch(lines, operation, encoding) ==
    /\ batchPc = "idle"
    /\ IF lines = <<>>
       THEN /\ batchPc' = "refused"
            /\ UNCHANGED <<batchLines, batchOperation, batchEncoding,
                           callbacks, preBatch>>
       ELSE /\ batchPc' = "forEach"
            /\ batchLines' = lines
            /\ batchOperation' = operation
            /\ batchEncoding' = encoding
            /\ callbacks' = [i \in 1..Len(lines) |-> NoCallback]
            /\ preBatch' = [encodeInput |-> encodeInput,
                            encodingSelect |-> encodingSelect,
                            decodeInput |-> decodeInput]
    /\ batchItems' = <<>>
    /\ processedCount' = 0
    /\ started' = 0
    /\ UNCHANGED <<encodeInput, encodingSelect, decodeInput, encodeResult,
                   decodeResult, totalOps, notifications, pendingDigests,
                   microtasks>>
    /\ UNCHANGED <<cipherVars, detectVars, codecVars, historyVars>>

\* The callback of the next line, from its call by forEach to its await
\* (lines 1379-1394 and 1400-1405), with the part of encode(true) or
\* detectAndDecode(true) that runs before that function's own first await:
\* all of it, showOutput included, unless encode awaits a digest.
CallbackStart ==
    /\ batchPc = "forEach"
    /\ started < Len(batchLines)
    /\ LET i == started + 1
           line == batchLines[i]
           shown == DetectShown(line, appSettings)
       IN /\ started' = i
          /\ batchPc' = IF i = Len(batchLines) THEN "running" ELSE "forEach"
          /\ IF batchOperation = "encode"
             THEN /\ callbacks' =
                        [callbacks EXCEPT
                           ![i] = [pc |-> "await",
                                   originalInput |-> encodeInput,
                                   originalSelect |-> encodingSelect]]
                  /\ encodeInput' = line
                  /\ encodingSelect' = batchEncoding
                  /\ IF EncodeAwaits(batchEncoding)
                     THEN /\ pendingDigests' = pendingDigests \cup {i}
                          /\ UNCHANGED <<encodeResult, microtasks>>
                     ELSE /\ encodeResult' =
                                EncodeResultOf(batchEncoding, line)
                          /\ microtasks' =
                                Append(microtasks, <<"callback", i>>)
                          /\ UNCHANGED pendingDigests
                  /\ UNCHANGED <<decodeInput, decodeResult>>
             ELSE /\ callbacks' =
                        [callbacks EXCEPT
                           ![i] = [pc |-> "await",
                                   originalInput |-> decodeInput,
                                   originalSelect |-> ""]]
                  /\ decodeInput' = line
                  /\ decodeResult' = IF shown # Null THEN shown
                                     ELSE decodeResult
                  /\ microtasks' = Append(microtasks, <<"callback", i>>)
                  /\ UNCHANGED <<encodeInput, encodingSelect, encodeResult,
                                 pendingDigests>>
    /\ UNCHANGED <<batchItems, totalOps, notifications, batchLines,
                   batchOperation, batchEncoding, processedCount, preBatch>>
    /\ UNCHANGED <<cipherVars, detectVars, codecVars, historyVars>>

\* the host settles the digest encode awaits for line i: the rest of encode
\* is queued
DigestSettles(i) ==
    /\ batchPc = "running"
    /\ i \in pendingDigests
    /\ pendingDigests' = pendingDigests \ {i}
    /\ microtasks' = Append(microtasks, <<"encode", i>>)
    /\ UNCHANGED <<encodeInput, encodingSelect, decodeInput, encodeResult,
                   decodeResult, batchItems, totalOps, notifications, batchPc,
                   batchLines, batchOperation, batchEncoding, started,
                   callbacks, processedCount, preBatch>>
    /\ UNCHANGED <<cipherVars, detectVars, codecVars, historyVars>>

\* the rest of encode(true) for line i after its await (lines 1113-1130):
\* showOutput with the digest of the input encode read when it was called,
\* then the callback that awaits encode is queued
EncodeResumes ==
    /\ batchPc = "running"
    /\ microtasks # <<>>
    /\ Head(microtasks)[1] = "encode"
    /\ LET i == Head(microtasks)[2]
       IN /\ encodeResult' = EncodeResultOf(batchEncoding, batchLines[i])
          /\ microtasks' = Append(Tail(microtasks), <<"callback", i>>)
    /\ UNCHANGED <<encodeInput, encodingSelect, decodeInput, decodeResult,
                   batchItems, totalOps, notifications, batchPc, batchLines,
                   batchOperation, batchEncoding, started, callbacks,
                   pendingDigests, processedCount, preBatch>>
    /\ UNCHANGED <<cipherVars, detectVars, codecVars, historyVars>>

\* the callback of line i after its await (lines 1395-1445): it reads the
\* result element, writes back the values it saved, appends its item and
\* counts; the callback that brings the count to totalLines updates the
\* statistics and shows the notification
CallbackResumes ==
    /\ batchPc = "running"
    /\ microtasks # <<>>
    /\ Head(microtasks)[1] = "callback"
    /\ LET i == Head(microtasks)[2]
           me == callbacks[i]
           result == IF batchOperation = "encode"
                     THEN IF encodeResult # <<>> THEN encodeResult
                          ELSE EncodingFailedText
                     ELSE IF decodeResult # <<>> THEN decodeResult
                          ELSE NoEncodingDetectedText
       IN /\ IF batchOperation = "encode"
             THEN /\ encodeInput' = me.originalInput
                  /\ encodingSelect' = me.originalSelect
                  /\ UNCHANGED decodeInput
             ELSE /\ decodeInput' = me.originalInput
                  /\ UNCHANGED <<encodeInput, encodingSelect>>
          /\ callbacks' = [callbacks EXCEPT ![i].pc = "done"]
          /\ batchItems' = Append(batchItems,
                                  [index |-> i, line |-> batchLines[i],
                                   result |-> result])
          /\ processedCount' = processedCount + 1
          /\ IF processedCount + 1 = Len(batchLines)
             THEN /\ totalOps' = totalOps + 1
                  /\ notifications' = notifications + 1
                  /\ batchPc' = "done"
             ELSE UNCHANGED <<totalOps, notifications, batchPc>>
    /\ microtasks' = Tail(microtasks)
    /\ UNCHANGED <<encodeResult, decodeResult, batchLines, batchOperation,
                   batchEncoding, started, pendingDigests, preBatch>>
    /\ UNCHANGED <<cipherVars, detectVars, codecVars, historyVars>>

BatchNext ==
    \/ \E lines \in BatchInputs, operation \in {"encode", "decode"},
          encoding \in BatchEncodings : ProcessBatch(lines, operation, encoding)
    \/ CallbackStart
    \/ \E i \in 1..MaxBatchLines : DigestSettles(i)
    \/ EncodeResumes
    \/ CallbackResumes

(***************************************************************************)
(* src/unnamed/part_000 : appState.history, addToHistory and clearHistory. *)
(***************************************************************************)
\* appState.history.slice(0, 20)
HistoryLimit == 20

\* input.substring(0, 100)
PreviewLimit == 100

\* most calls of addToHistory and clearHistory in a run
MaxHistoryCalls == 3

\* the text of n characters a, b, c, ... , z, a, ...
TextOfLength(n) == [j \in 1..n |-> 97 + ((j - 1) % 26)]

\* the (input, output) pairs handed to addToHistory: short and over the
\* limit by one, over the limit by one and short, both exactly at the limit
HistoryTexts ==
    {<<TextOfLength(3), TextOfLength(PreviewLimit + 1)>>,
     <<TextOfLength(PreviewLimit + 1), TextOfLength(3)>>,
     <<TextOfLength(PreviewLimit), TextOfLength(PreviewLimit)>>}

\* the callers: encode (line 1134) and detectAndDecode (line 1306)
HistoryCallers == {<<"encode", "base64">>, <<"decode", "Base64">>}

\* the history an earlier visit left in localStorage after n calls of
\* addToHistory at the times 1 .. n
StoredHistory(n) ==
    [j \in 1..n |-> [id |-> n + 1 - j, operation |-> "encode",
                     type |-> "base64", input |-> TextOfLength(3),
                     output |-> TextOfLength(4)]]

\* array.slice without its bounds: the whole array
SliceAll(array, start, end) == array

\* array.slice(start, end) for 0 <= start <= end
Slice(array, start, end) == SubSeq(array, start + 1, Min(end, Len(array)))

\* appState.history is read from localStorage (line 9): nothing, or what
\* earlier visits stored
HistoryInit ==
    /\ \E n \in {0, HistoryLimit - 1, HistoryLimit} :
          /\ history = StoredHistory(n)
          /\ clock = n
    /\ historyCall = NoHistoryCall
    /\ historyCalls = 0
    /\ encodeInput = <<>>
    /\ encodingSelect = "base64"
    /\ decodeInput = <<>>
    /\ encodeResult = <<>>
    /\ decodeResult = <<>>
    /\ batchItems = <<>>
    /\ totalOps = 0
    /\ notifications = 0
    /\ batchPc = "idle"
    /\ batchLines = <<>>
    /\ batchOperation = "encode"
    /\ batchEncoding = "base64"
    /\ started = 0
    /\ callbacks = <<>>
    /\ pendingDigests = {}
    /\ microtasks = <<>>
    /\ processedCount = 0
    /\ preBatch = NoBatch
    /\ appSettings = DefaultSettings
    /\ dInput = <<>>
    /\ dPad = 0
    /\ dStatus = "idle"
    /\ dIndex = 0
    /\ results = <<>>
    /\ bestResult = Null
    /\ bestType = NullType
    /\ bestConfidence = 0
    /\ attempted = <<>>
    /\ cipherCall = NoCall
    /\ cipherRet = Val(<<>>)
    /\ sent = NoFrame
    /\ codecCall = NoCodecCall
    /\ codecRet = NoCodecRet

\* addToHistory (lines 1742-1757); elapsed is the time gone by since the
\* clock was last read, in milliseconds
AddToHistory(operation, type, input, output, elapsed) ==
    LET now == clock + elapsed
        historyItem == [id |-> now, operation |-> operation, type |-> type,
                        input |-> Slice(input, 0, PreviewLimit),
                        output |-> Slice(output, 0, PreviewLimit)]
    IN /\ historyCalls < MaxHistoryCalls
       /\ history' = Slice(<<historyItem>> \o history, 0, HistoryLimit)
       /\ clock' = now
       /\ historyCall' = [op |-> "add", input |-> input, output |-> output]
       /\ historyCalls' = historyCalls + 1
       /\ UNCHANGED <<cipherVars, detectVars, codecVars, batchVars>>

\* clearHistory (lines 1804-1809)
ClearHistory ==
    /\ historyCalls < MaxHistoryCalls
    /\ history' = <<>>
    /\ historyCall' = [op |-> "clear", input |-> <<>>, output |-> <<>>]
    /\ historyCalls' = historyCalls + 1
    /\ UNCHANGED clock
    /\ UNCHANGED <<cipherVars, detectVars, codecVars, batchVars>>

HistoryNext ==
    \/ \E caller \in HistoryCallers, texts \in HistoryTexts,
          elapsed \in {0, 1} :
          AddToHistory(caller[1], caller[2], texts[1], texts[2], elapsed)
    \/ ClearHistory

vars == <<cipherVars, detectVars, codecVars, pageVars>>

CipherSpec == CipherInit /\ [][CipherNext]_vars

DetectSpec == DetectInit /\ [][DetectNext]_vars

CodecSpec == CodecInit /\ [][CodecNext]_vars

BatchSpec == BatchInit /\ [][BatchNext]_vars

HistorySpec == HistoryInit /\ [][HistoryNext]_vars

(***************************************************************************)
(* Properties of the cipher.                                               *)
(***************************************************************************)
KeyOf(key) == DerivedKeys[key].val

\* positions at which the per-byte round trip is examined: every rotation
\* amount, and positions past the end of the 256-byte keystream
RoundTripPositions == 0..9 \cup {36, 37, 255, 256, 257, 300}

\* the last call decoded the frame that encode produced, with passphrase key
DecodedSentWith(key) ==
    /\ cipherCall.op = "decode"
    /\ sent # NoFrame
    /\ cipherCall.text = sent.frame
    /\ cipherCall.key = key

\* C1: cipher round trip.  For the keystream of every non-empty passphrase,
\* unscrambling the scrambled byte at the same position gives the byte back
\* (every byte 0..255); parsing the frame written from the scrambled bytes
\* gives those bytes back; and decode of the frame encode produced, with the
\* same passphrase, returns the bytes and the text that were encoded.
C1_RoundTrip ==
    /\ (cipherCall.op = "keyDerivation" /\ cipherRet.ok) =>
          \A b \in 0..255, p \in RoundTripPositions :
             unscrambleByte(scrambleByte(b, p, cipherRet.val), p,
                            cipherRet.val) = b
    /\ (cipherCall.op = "encode" /\ sent # NoFrame) =>
          LET k == KeyOf(sent.key)
              scrambled == encodeBytes(TextEncode(sent.text), k)
              parsed == hexToBytes(bytesToHex(scrambled, k), k)
          IN /\ parsed.ok
             /\ parsed.val = scrambled
             /\ decodeBytes(scrambled, k) = TextEncode(sent.text)
    /\ (sent # NoFrame /\ DecodedSentWith(sent.key)) =>
          /\ cipherRet.ok
          /\ cipherRet.val = sent.text

C1_Witness ==
    /\ sent # NoFrame
    /\ DecodedSentWith(sent.key)
    /\ Len(TextEncode(sent.text)) >= 3
    /\ cipherRet.ok
    /\ cipherRet.val = sent.text

\* (the frame is examined in the state encode has just produced it)
\* what unframe answers to the sent frame with the character at pos
\* (1-based, within the hex part) replaced by c
UnframeMutated(pos, c) ==
    hexToBytes(Replace(sent.frame, pos, c), KeyOf(sent.key))

\* C2 (as claimed): replacing any one character of the hex part of a valid
\* frame by any different character makes unframe fail with a checksum
\* mismatch.
C2_AnyReplacementIsChecksumMismatch ==
    (cipherCall.op = "encode" /\ sent # NoFrame) =>
       \A pos \in 1..Len(HexPart(sent.frame)) :
          \A c \in ReplacementChars \ {sent.frame[pos]} :
             LET r == UnframeMutated(pos, c)
             IN ~r.ok /\ r.cause = ErrChecksum

\* C2 (amended): replacing any one character of the hex part of a valid
\* frame by a different character makes unframe fail: with a checksum
\* mismatch when the replacement is not '.', and with "Invalid format" (the
\* frame no longer splits into two parts) when it is '.'.
C2_FrameIntegrity ==
    (cipherCall.op = "encode" /\ sent # NoFrame) =>
       \A pos \in 1..Len(HexPart(sent.frame)) :
          \A c \in ReplacementChars \ {sent.frame[pos]} :
             LET r == UnframeMutated(pos, c)
             IN /\ ~r.ok
                /\ r.cause = IF c = DOT THEN ErrFormat ELSE ErrChecksum

C2_Witness ==
    /\ sent # NoFrame
    /\ cipherCall.op = "decode"
    /\ cipherCall.key = sent.key
    /\ cipherCall.text \in Mutations(sent.frame, TriedReplacements \ {DOT})
    /\ Len(HexPart(sent.frame)) >= 6
    /\ ~cipherRet.ok
    /\ cipherRet.cause = ErrChecksum

\* the amount the keystream of a passphrase adds to every checksum: the sum
\* of k[i] * (i + 1) over its first 16 bytes, modulo 65536
KeyMark(key) ==
    LET k == KeyOf(key)
        RECURSIVE Sum(_)
        Sum(i) == IF i >= 16 THEN 0 ELSE k[i + 1] * (i + 1) + Sum(i + 1)
    IN Sum(0) % 65536

\* the last call decoded the sent frame with another, non-empty passphrase
CrossKeyDecode ==
    /\ sent # NoFrame
    /\ DecodedSentWith(cipherCall.key)
    /\ cipherCall.key # sent.key
    /\ ~KeyMissing(cipherCall.key)

\* C3 (as claimed): a frame encoded under passphrase P and decoded under any
\* other passphrase Q is rejected at the checksum stage; decode returns no
\* text.
C3_CrossKeyAlwaysRejected ==
    CrossKeyDecode => (~cipherRet.ok /\ cipherRet.cause = ErrChecksum)

\* C3 (amended): a frame encoded under P and decoded under another non-empty
\* passphrase Q is rejected at the checksum stage exactly when the keystreams
\* of P and Q add different amounts to the checksum; when they add the same
\* amount the checksum stage passes and decode returns text, which is the
\* original text when P and Q derive the same keystream.
C3_CrossKey ==
    CrossKeyDecode =>
       /\ KeyMark(cipherCall.key) # KeyMark(sent.key) =>
             (~cipherRet.ok /\ cipherRet.cause = ErrChecksum)
       /\ KeyMark(cipherCall.key) = KeyMark(sent.key) => cipherRet.ok
       /\ KeyOf(cipherCall.key) = KeyOf(sent.key) =>
             (cipherRet.ok /\ cipherRet.val = sent.text)

C3_Witness ==
    /\ CrossKeyDecode
    /\ KeyMark(cipherCall.key) # KeyMark(sent.key)
    /\ ~cipherRet.ok
    /\ cipherRet.cause = ErrChecksum

\* "HI", "k3y!" and "wrong"
TextHI == <<72, 73>>
KeyK3y == <<107, 51, 121, 33>>
KeyWrong == <<119, 114, 111, 110, 103>>

\* n lowercase hex digits, a dot, 4 lowercase hex digits
IsFrameShape(t, n) ==
    /\ Len(t) = n + 5
    /\ t[n + 1] = DOT
    /\ \A j \in (1..n) \cup ((n + 2)..(n + 5)) : IsLowerHexChar(t[j])

\* C4: encoding "HI" with "k3y!" gives 4 lowercase hex digits, a dot and 4
\* lowercase hex digits; decoding that frame with "k3y!" returns "HI";
\* decoding it with "wrong" fails.
C4_Scenario ==
    /\ (cipherCall.op = "encode" /\ cipherCall.text = TextHI
        /\ cipherCall.key = KeyK3y) =>
          (cipherRet.ok /\ IsFrameShape(cipherRet.val, 4))
    /\ (sent # NoFrame /\ sent.text = TextHI /\ sent.key = KeyK3y) =>
          /\ DecodedSentWith(KeyK3y) =>
                (cipherRet.ok /\ cipherRet.val = TextHI)
          /\ DecodedSentWith(KeyWrong) => ~cipherRet.ok

C4_Witness ==
    /\ sent # NoFrame
    /\ sent.text = TextHI
    /\ sent.key = KeyK3y
    /\ IsFrameShape(sent.frame, 4)
    /\ DecodedSentWith(KeyWrong)
    /\ ~cipherRet.ok

\* C5: keyDerivation, encode and decode called with an empty or absent
\* passphrase fail with an error, whatever the text (the empty text
\* included); none of them returns a value.
C5_MissingKeyFails ==
    (cipherCall.op \in {"keyDerivation", "encode", "decode"}
     /\ KeyMissing(cipherCall.key)) => ~cipherRet.ok

\* C6 (as claimed): for every plaintext and every non-empty passphrase the
\* text encode returns is a non-empty lowercase hex string of twice as many
\* digits as the plaintext has bytes, a dot, and 4 lowercase hex digits.
C6_EveryEncodeIsFrame ==
    (cipherCall.op = "encode" /\ cipherCall.text # Undefined
     /\ ~KeyMissing(cipherCall.key)) =>
       /\ cipherRet.ok
       /\ Len(cipherRet.val) > 5
       /\ IsFrameShape(cipherRet.val, 2 * Len(TextEncode(cipherCall.text)))

\* C6 (amended): for every non-empty plaintext and every non-empty
\* passphrase the text encode returns is a non-empty lowercase hex string of
\* twice as many digits as the plaintext has bytes, a dot, and 4 lowercase
\* hex digits; for the empty plaintext encode returns the empty text.
C6_FrameFormat ==
    (cipherCall.op = "encode" /\ cipherCall.text # Undefined
     /\ ~KeyMissing(cipherCall.key)) =>
       /\ cipherRet.ok
       /\ cipherCall.text # <<>> =>
             /\ Len(cipherRet.val) > 5
             /\ IsFrameShape(cipherRet.val,
                             2 * Len(TextEncode(cipherCall.text)))
       /\ cipherCall.text = <<>> => cipherRet.val = <<>>

C6_Witness ==
    /\ cipherCall.op = "encode"
    /\ ~KeyMissing(cipherCall.key)
    /\ Len(cipherCall.text) = 2
    /\ Len(TextEncode(cipherCall.text)) = 3
    /\ cipherRet.ok
    /\ IsFrameShape(cipherRet.val, 6)

\* the text splits on '.' into a hex part of even length and a checksum that
\* matches it under key, and some two-character pair of the hex part is not
\* two hex digits
HasBadPair(t, key) ==
    LET parts == Split(t, DOT)
    IN /\ Len(parts) = 2
       /\ Len(parts[1]) % 2 = 0
       /\ parts[2] = calculateChecksum(parts[1], KeyOf(key))
       /\ \E j \in 1..Len(parts[1]) : ~IsHexChar(parts[1][j])

\* C7: unframe rejects every frame whose hex part holds a pair that is not
\* two hex digits, even when the frame has one dot, even length and a
\* matching checksum; every byte unframe returns is in 0..255 and decode
\* returns no text for such a frame.
C7_BadHexRejected ==
    (cipherCall.op = "decode" /\ cipherCall.text # Undefined
     /\ ~KeyMissing(cipherCall.key)) =>
       LET r == hexToBytes(cipherCall.text, KeyOf(cipherCall.key))
       IN /\ r.ok => \A j \in 1..Len(r.val) : r.val[j] \in 0..255
          /\ HasBadPair(cipherCall.text, cipherCall.key) =>
                (~r.ok /\ ~cipherRet.ok)

\* position of a type in the trial order
TrialPosition(type) ==
    CHOOSE j \in 1..Len(encodingTests) : encodingTests[j] = type

\* the scan has come past type, and type was tried on the input: the checks
\* of shouldAttemptDecoding and its test() passed
Tried(type) ==
    /\ dStatus \in {"scanning", "done"}
    /\ TrialPosition(type) < dIndex
    /\ shouldAttemptDecoding(dInput, type, appSettings)
    /\ ~EncodingTestThrows(type)
    /\ EncodingTest(type, dInput)

\* C8: every accepted result, and the best result, has a confidence that is
\* not below the threshold of the configured sensitivity (strict 0.8,
\* medium 0.5, loose 0.2); with strict an input whose decodes all score
\* below 0.8 ends with no best result.
C8_BelowThresholdExcluded ==
    LET minConfidence == MinConfidence(appSettings.detectionSensitivity)
    IN /\ \A j \in 1..Len(results) : results[j].confidence >= minConfidence
       /\ bestResult # Null => bestConfidence >= minConfidence

\* entry j of results is the best: no entry has a higher confidence, and no
\* entry of the same confidence comes from an earlier type of the trial order
IsBestEntry(j) ==
    \A k \in 1..Len(results) :
        \/ results[k].confidence < results[j].confidence
        \/ /\ results[k].confidence = results[j].confidence
           /\ TrialPosition(results[k].originalType)
                 >= TrialPosition(results[j].originalType)

\* C9: after the scan, and at every step of it, the best result is the
\* accepted result of highest confidence, and among several of that
\* confidence the one whose type is earliest in the trial order; with no
\* accepted result there is no best.
C9_BestSelection ==
    IF results = <<>>
    THEN bestResult = Null /\ bestType = NullType /\ bestConfidence = 0
    ELSE \E j \in 1..Len(results) :
            /\ IsBestEntry(j)
            /\ bestResult = results[j].result
            /\ bestType = results[j].type
            /\ bestConfidence = results[j].confidence

\* a finished scan with two accepted results of the same, highest confidence
C9_Witness ==
    /\ dStatus = "done"
    /\ \E j, k \in 1..Len(results) :
          /\ j < k
          /\ results[j].confidence = results[k].confidence
          /\ results[j].confidence = bestConfidence
          /\ bestType = results[j].type
    /\ \E j \in 1..Len(results) : results[j].confidence < bestConfidence

\* type was tried and its decode returned the input unchanged
IdentityDecode(type) ==
    /\ Tried(type)
    /\ DecodeCase(type, dInput).ok
    /\ DecodeCase(type, dInput).val = dInput

\* C10: a type whose decode returns the input unchanged adds no entry to the
\* accepted results and does not become the best result; no accepted result
\* and no best result is the input itself.
C10_IdentityNeverAccepted ==
    /\ \A j \in 1..Len(results) : results[j].result # dInput
    /\ bestResult # dInput
    /\ \A j \in 1..Len(encodingTests) :
          IdentityDecode(encodingTests[j]) =>
             /\ \A k \in 1..Len(results) :
                   results[k].originalType # encodingTests[j]
             /\ bestType # TypeName(encodingTests[j])

\* a finished scan in which some type decoded the input to itself while
\* another type was accepted
C10_Witness ==
    /\ dStatus = "done"
    /\ results # <<>>
    /\ \E j \in 1..Len(encodingTests) : IdentityDecode(encodingTests[j])

\* the types, in trial order, that the scan has come past, whose test()
\* matched and whose decode returned a text different from the input
DecodedAndChanged ==
    SelectSeq(encodingTests,
              LAMBDA type : /\ Tried(type)
                            /\ DecodeCase(type, dInput).ok
                            /\ DecodeCase(type, dInput).val # dInput)

\* the types of the accepted results, in the order of the list
AcceptedTypes == [j \in 1..Len(results) |-> results[j].originalType]

\* C11: the accepted list holds exactly one result, in trial order, for
\* each enabled type whose test matched and whose decode succeeded with a
\* text different from the input, the empty text included.
C11_AcceptedListComplete ==
    dStatus \in {"scanning", "done"} => AcceptedTypes = DecodedAndChanged

\* the structural bonus of a type as the formula states it, in
\* ten-thousandths: 0.3 for base64, hex and morse when the shape check of
\* the type holds (for morse: dots, dashes, slashes and white space only,
\* with a dot and a dash both present), 0.2 for url, nothing otherwise
StatedBonus(input, type) ==
    CASE type = "base64" ->
            IF Len(input) % 4 = 0 /\ MatchesBase64(input) THEN 3000 ELSE 0
      [] type = "hex" ->
            IF MatchesGroups(Trim(input), 2, HexChars, TRUE) THEN 3000 ELSE 0
      [] type = "morse" ->
            IF MatchesMorse(input) /\ Includes(input, 46) /\ Includes(input, 45)
            THEN 3000 ELSE 0
      [] type = "url" ->
            IF Includes(input, 37) /\ HasEscape(input, 37) THEN 2000 ELSE 0
      [] OTHER -> 0

\* min(1, 0.5 + 0.1 + 0.1 + bonus + 0.1) in decimal arithmetic
StatedConfidence(input, result, type) ==
    Min(10000,
        5000 + (IF Len(input) > 10 THEN 1000 ELSE 0)
             + (IF Len(input) > 50 THEN 1000 ELSE 0)
             + StatedBonus(input, type)
             + (IF IsPrintable(result) THEN 1000 ELSE 0))

\* C12 as stated: the confidence of every accepted result equals the decimal
\* value min(1, 0.5 + length terms + bonus + printable term).
C12_ConfidenceIsDecimalSum ==
    \A j \in 1..Len(results) :
        results[j].confidence
          = StatedConfidence(dInput, results[j].result,
                             results[j].originalType)

\* C12: the confidence of every accepted result is the sum min(1, 0.5 +
\* length terms + bonus + printable term) formed in double arithmetic: the
\* stated decimal value or the double next below it, never above it, and
\* always within [0, 1]; the best confidence is within [0, 1] too.
C12_ConfidenceFormula ==
    /\ bestConfidence \in 0..10000
    /\ \A j \in 1..Len(results) :
          LET stated == StatedConfidence(dInput, results[j].result,
                                         results[j].originalType)
          IN /\ results[j].confidence \in 0..10000
             /\ results[j].confidence \in {stated, stated - 1}

\* a finished scan that accepted a result whose terms add up to more than 1
\* (the cap applies) and a result whose double sum is below the decimal sum
C12_Witness ==
    /\ dStatus = "done"
    /\ \E j, k \in 1..Len(results) :
          /\ results[j].confidence = 10000
          /\ Len(dInput) > 50
          /\ StatedBonus(dInput, results[j].originalType) = 3000
          /\ IsPrintable(results[j].result)
          /\ results[k].confidence = 7999

\* type is ticked in the settings
Enabled(type) ==
    \E j \in 1..Len(appSettings.enabledEncodings) :
        appSettings.enabledEncodings[j] = type

InputLength == Len(dInput) + dPad

DecodeFails ==
    /\ dStatus = "scanning"
    /\ dIndex \in 1..Len(encodingTests)
    /\ RanSwitch(encodingTests[dIndex], dInput, appSettings)
    /\ ~DecodeCase(encodingTests[dIndex], dInput).ok

\* C15: a step of the scan in which the decode of a type throws moves on to
\* the next type and changes nothing else: the run is not ended with an
\* error, and the accepted results and the best result stay what they were,
\* exactly as in a step over a type that is not enabled.
C15_FailureIsolation ==
    [][DecodeFails =>
          /\ dStatus' = "scanning"
          /\ dIndex' = dIndex + 1
          /\ results' = results
          /\ bestResult' = bestResult
          /\ bestType' = bestType
          /\ bestConfidence' = bestConfidence]_vars

\* a finished scan in which the decode of one type threw and a type tried
\* after it was accepted
C15_Witness ==
    /\ dStatus = "done"
    /\ \E j \in 1..Len(attempted), k \in 1..Len(results) :
          /\ ~DecodeCase(attempted[j], dInput).ok
          /\ TrialPosition(attempted[j])
                < TrialPosition(results[k].originalType)

\* "SGVsbG8=" and "Hello"
InputHello == <<83, 71, 86, 115, 98, 71, 56, 61>>
TextHello == <<72, 101, 108, 108, 111>>

\* the run on the written input under the settings has ended
RunEnded(input, settings) ==
    /\ dInput = input
    /\ dPad = 0
    /\ appSettings = settings
    /\ dStatus \notin {"idle", "scanning"}

\* C16: the run on "SGVsbG8=" under the default settings ends with the best
\* result "Hello" of type Base64 and a confidence of at least 0.5, with
\* another accepted result beside it.
C16_ScenarioHello ==
    RunEnded(InputHello, DefaultSettings) =>
        /\ dStatus = "done"
        /\ bestType = "Base64"
        /\ bestResult = TextHello
        /\ bestConfidence >= 5000
        /\ \E j \in 1..Len(results) : results[j].originalType # "base64"

\* "... --- ..." and "SOS"
InputSOS == <<46, 46, 46, 32, 45, 45, 45, 32, 46, 46, 46>>
TextSOS == <<83, 79, 83>>

\* C17: the run on the Morse code of "SOS", codes separated by single
\* spaces, under the default settings ends with the best result "SOS" of
\* type Morse Code.
C17_ScenarioSOS ==
    RunEnded(InputSOS, DefaultSettings) =>
        /\ dStatus = "done"
        /\ bestType = "Morse Code"
        /\ bestResult = TextSOS

\* C29: at every point of the scan, every accepted result has a decoded
\* text that is not empty and not the input and a confidence from 0.5 to 1.0;
\* there is no best result if and only if the accepted list is empty, and a
\* best result is an element of the list, with bestConfidence the
\* confidence of that element.
C29_DetectionBookkeeping ==
    /\ \A j \in 1..Len(results) :
          /\ results[j].result # <<>>
          /\ results[j].result # dInput
          /\ results[j].confidence >= Confidence(5)
          /\ results[j].confidence <= Confidence(10)
    /\ (bestResult = Null) <=> (results = <<>>)
    /\ bestResult # Null =>
          \E j \in 1..Len(results) :
             /\ results[j].result = bestResult
             /\ results[j].type = bestType
             /\ results[j].confidence = bestConfidence

\* in the middle of a scan, two results are accepted and the best one has a
\* higher confidence than the other
C29_Witness ==
    /\ dStatus = "scanning"
    /\ dIndex <= Len(encodingTests)
    /\ Len(results) >= 2
    /\ bestResult # Null
    /\ \E j \in 1..Len(results) : results[j].confidence < bestConfidence

(***************************************************************************)
(* Properties of the codec functions.                                      *)
(***************************************************************************)
\* C18: decodeBase85(encodeBase85(x)) returns the bytes of x, for every
\* length of x, for groups of four zero bytes and for leading bytes of 128
\* or more; a trailing group of n < 4 bytes is written as n + 1 symbols.
C18_Base85RoundTrip ==
    codecCall.op = "base85" =>
        LET bytes == TextEncode(codecCall.text)
            groups == Len(bytes) \div 4
            rest == Len(bytes) % 4
        IN /\ codecRet.decoded.ok
           /\ codecRet.decoded.val = bytes
           /\ Len(codecRet.encoded) <= (5 * groups)
                                         + (IF rest = 0 THEN 0 ELSE rest + 1)

\* C19: caesarDecode(caesarEncode(t, s), s) = t for every integer shift s;
\* caesarEncode maps upper case letters to upper case letters, lower case
\* letters to lower case letters and leaves every other character alone.
C19_CaesarInverse ==
    codecCall.op = "caesar" =>
        /\ codecRet.decoded.val = codecCall.text
        /\ Len(codecRet.encoded) = Len(codecCall.text)
        /\ \A j \in 1..Len(codecCall.text) :
              LET c == codecCall.text[j]
                  e == codecRet.encoded[j]
              IN /\ IsUpper(c) => IsUpper(e)
                 /\ IsLower(c) => IsLower(e)
                 /\ ~IsLetter(c) => e = c

\* the values of the two-digit pairs of a text, white space set aside
PairValues(text) ==
    LET bare == SelectSeq(text, LAMBDA c : c \notin WhiteSpace)
    IN [j \in 1..(Len(bare) \div 2) |->
           (16 * HexVal(bare[(2 * j) - 1])) + HexVal(bare[2 * j])]

\* C20: the hex decode of a text of two-digit pairs is one character per
\* pair, of the code the pair writes, whether the pairs are separated by
\* white space or not.
C20_HexOneCharPerPair ==
    codecCall.op = "hex" =>
        /\ codecRet.decoded.ok
        /\ codecRet.decoded.val = PairValues(codecCall.text)

\* s.toLowerCase() on a text of base32 symbols and '='
LowerCase(s) == [j \in 1..Len(s) |-> IF IsUpper(s[j]) THEN s[j] + 32 ELSE s[j]]

\* C21: decodeBase32(encodeBase32(x)) = x for every text x of character
\* codes 0..255; the encoded text is symbols of A-Z and 2-7 followed by '='
\* only, its length is a multiple of 8, and the lower-cased encoded text
\* decodes to the same text.
C21_Base32RoundTrip ==
    codecCall.op = "base32" =>
        LET encoded == codecRet.encoded
            symbols == StripTrailingEquals(encoded)
        IN /\ codecRet.decoded = Val(codecCall.text)
           /\ \A j \in 1..Len(symbols) :
                 IsUpper(symbols[j]) \/ symbols[j] \in 50..55
           /\ Len(encoded) % 8 = 0
           /\ decodeBase32(LowerCase(encoded)) = Val(codecCall.text)

\* a text of five characters with a character of code 255 was encoded to
\* eight symbols, and a text of one character to two symbols and six '='
C21_Witness ==
    /\ codecCall.op = "base32"
    /\ codecRet.decoded = Val(codecCall.text)
    /\ \/ /\ Len(codecCall.text) = 5
          /\ \E j \in 1..5 : codecCall.text[j] = 255
          /\ Len(StripTrailingEquals(codecRet.encoded)) = 8
       \/ /\ Len(codecCall.text) = 1
          /\ Len(StripTrailingEquals(codecRet.encoded)) = 2
          /\ Len(codecRet.encoded) = 8

(***************************************************************************)
(* Properties of the tables, the key derivation and the frame of           *)
(* QuantumLayeredEncoder.                                                  *)
(***************************************************************************)
\* C22: before and after every call on the instance, the substitution table
\* it holds, table[i] = (i*17 + 42) mod 256, is a permutation of 0..255, and
\* the inverse table has every entry defined with inverse[table[b]] = b and
\* table[inverse[b]] = b for every byte value b.
C22_SubstitutionBijection ==
    cipherCall.op \in {"none", "keyDerivation", "encode", "decode"} =>
    /\ DOMAIN substitutionMatrix = 0..255
    /\ \A i \in 0..255 : substitutionMatrix[i] = (i * 17 + 42) % 256
    /\ {substitutionMatrix[i] : i \in 0..255} = 0..255
    /\ \A b \in 0..255 :
          LET back == inverseMatrix[b]
          IN /\ back # Hole
             /\ back \in 0..255
             /\ substitutionMatrix[back] = b
             /\ inverseMatrix[substitutionMatrix[b]] = b

\* a frame was decoded back to its text, whose first byte went through the
\* table on the way in and through the inverse table on the way out
C22_Witness ==
    /\ cipherCall.op = "decode"
    /\ sent # NoFrame
    /\ cipherCall.text = sent.frame
    /\ cipherRet = Val(sent.text)
    /\ sent.text # <<>>
    /\ LET b == TextEncode(sent.text)[1]
       IN substitutionMatrix[b] # b /\ inverseMatrix[substitutionMatrix[b]] = b

\* The low byte of the accumulator after folding the characters i+1.. of
\* the passphrase with acc = acc * mult + charCode: the low byte of a sum
\* truncated to 32 bits is the sum of the low bytes modulo 256.
RECURSIVE SeedLowByte(_, _, _, _)
SeedLowByte(key, i, acc, mult) ==
    IF i >= Len(key) THEN acc
    ELSE SeedLowByte(key, i + 1, (acc * mult + key[i + 1]) % 256, mult)

\* derived is the keystream of the passphrase when every update multiplies
\* the accumulator by mult: entry i is the low byte of the accumulator after
\* acc = acc * mult + i + offset, for i = 0..255 in order, starting from the
\* seed of the passphrase
IsKeystream(derived, key, mult) ==
    /\ derived.ok
    /\ Len(derived.val) = 256
    /\ \A j \in 1..256 : derived.val[j] \in 0..255
    /\ derived.val[1] =
          (SeedLowByte(key, 0, 5381 % 256, mult) * mult + 0 + 7919) % 256
    /\ \A i \in 1..255 :
          derived.val[i + 1] = (derived.val[i] * mult + i + 7919) % 256

\* C23 as stated: the keystream of a non-empty passphrase has 256 entries
\* in 0..255, with the seed folded by acc = acc*33 + acc + charCode and
\* entry i the low byte after acc = acc*33 + acc + i + offset.
C23_UpdateAddsAccumulatorTwice ==
    (cipherCall.op = "keyDerivation" /\ ~KeyMissing(cipherCall.key)) =>
        IsKeystream(cipherRet, cipherCall.key, 33 + 1)

\* C23: the keystream of a non-empty passphrase has 256 entries in 0..255,
\* with the seed folded by acc = acc*33 + charCode truncated to 32 bits and
\* entry i the low byte after acc = acc*33 + i + offset truncated to 32
\* bits, for i = 0..255 in order.
C23_KeyDerivation ==
    (cipherCall.op = "keyDerivation" /\ ~KeyMissing(cipherCall.key)) =>
        IsKeystream(cipherRet, cipherCall.key, 33)

\* the keystream of "k3y!" was derived, and it is not a constant sequence
C23_Witness ==
    /\ cipherCall.op = "keyDerivation"
    /\ cipherCall.key = <<107, 51, 121, 33>>
    /\ cipherRet.ok
    /\ Len(cipherRet.val) = 256
    /\ cipherRet.val[1] # cipherRet.val[2]

\* an 8-bit value rotated left by n bits, 0 <= n <= 7
Rotl8(v, n) == ((v * Pow(2, n)) % 256) + (v \div Pow(2, 8 - n))

\* ((rotl8(table[b] XOR k[p mod 256], p mod 8)) + k[(p*7) mod 256]) mod 256
\* for a keystream k of 256 entries
CipherByteAt(b, p, k) ==
    LET x == BitXor((b * 17 + 42) % 256, k[(p % 256) + 1], 8)
    IN (Rotl8(x, p % 8) + k[((p * 7) % 256) + 1]) % 256

\* the value of the p-th pair of hex digits of a text, p counted from 0
PairAt(hex, p) == (16 * HexVal(hex[(2 * p) + 1])) + HexVal(hex[(2 * p) + 2])

\* C24: the cipher byte at position p is
\* ((rotl8(table[b_p] XOR k[p mod 256], p mod 8)) + k[(p*7) mod 256]) mod 256
\* with a rotation by 0 leaving the value unchanged: it is a function of the
\* plaintext byte at p, of p and of the keystream only, so it does not
\* depend on another plaintext byte or on an earlier cipher byte.
C24_PerByteTransform ==
    /\ cipherCall.op = "scrambleByte" =>
          /\ cipherRet = Val(<<CipherByteAt(cipherCall.text[1],
                                            cipherCall.position,
                                            DerivedKeys[cipherCall.key].val)>>)
          /\ cipherCall.position % 8 = 0 =>
                cipherRet.val[1] =
                   LET k == DerivedKeys[cipherCall.key].val
                       p == cipherCall.position
                   IN (BitXor((cipherCall.text[1] * 17 + 42) % 256,
                              k[(p % 256) + 1], 8)
                       + k[((p * 7) % 256) + 1]) % 256
    /\ (cipherCall.op = "encode" /\ cipherRet.ok /\ cipherRet.val # <<>>) =>
          LET bytes == TextEncode(cipherCall.text)
              k == DerivedKeys[cipherCall.key].val
              hex == HexPart(cipherRet.val)
          IN /\ Len(hex) = 2 * Len(bytes)
             /\ \A p \in 0..(Len(bytes) - 1) :
                   PairAt(hex, p) = CipherByteAt(bytes[p + 1], p, k)

\* scrambleByte was called on the byte 255 at position 263, past the end of
\* the keystream and with a rotation by 7, and moved the byte
C24_Witness ==
    /\ cipherCall.op = "scrambleByte"
    /\ cipherCall.position = 263
    /\ cipherCall.text = <<255>>
    /\ cipherRet.ok
    /\ cipherRet.val # <<255>>

\* the pair of characters is two hex digits
IsHexPair(pair) == Len(pair) = 2 /\ IsHexChar(pair[1]) /\ IsHexChar(pair[2])

SeedOf(key) == HashKey(key, 0, HashInit)

\* the seeds of two passphrases agree in their low 8 bits
SeedsCongruent(p, q) == SeedOf(p).lo % 256 = SeedOf(q).lo % 256

\* C28: the keystream depends on the passphrase only through the low 8 bits
\* of its seed: it is the keystream generated from those 8 bits alone, so
\* passphrases with seeds congruent modulo 256 derive the same 256 bytes,
\* and a frame encoded under one of them passes the checksum and decodes to
\* the original text under the other.
C28_KeystreamFromSeedLowByte ==
    /\ (cipherCall.op = "keyDerivation" /\ cipherRet.ok) =>
          /\ cipherRet.val =
                GenerateKey([hi |-> 0, lo |-> SeedOf(cipherCall.key).lo % 256])
          /\ \A q \in Passphrases :
                (~KeyMissing(q) /\ SeedsCongruent(cipherCall.key, q)) =>
                   DerivedKeys[q] = cipherRet
    /\ (CrossKeyDecode /\ SeedsCongruent(cipherCall.key, sent.key)) =>
          cipherRet = Val(sent.text)

\* a frame encoded under "ab" was decoded to its text under "iZ", whose
\* seed is another number with the same low 8 bits
C28_Witness ==
    /\ CrossKeyDecode
    /\ sent.key = <<97, 98>>
    /\ cipherCall.key = <<105, 90>>
    /\ SeedOf(sent.key) # SeedOf(cipherCall.key)
    /\ SeedsCongruent(sent.key, cipherCall.key)
    /\ sent.text # <<>>
    /\ cipherRet = Val(sent.text)

(***************************************************************************)
(* Properties of processBatch.                                             *)
(***************************************************************************)
\* C26: once processBatch has processed every line of a batch, of one line
\* or of several, the fields encode-input, encoding-select and decode-input
\* hold the values they held before the batch started.
C26_BatchRestoresFields ==
    batchPc = "done" =>
        /\ encodeInput = preBatch.encodeInput
        /\ encodingSelect = preBatch.encodingSelect
        /\ decodeInput = preBatch.decodeInput

\* the text processBatch shows for a line processed on its own
ResultOfLine(line) ==
    IF batchOperation = "encode"
    THEN EncodeResultOf(batchEncoding, line)
    ELSE LET shown == DetectShown(line, appSettings)
         IN IF shown # Null THEN shown ELSE NoEncodingDetectedText

\* C27: in every interleaving of the callbacks, the item labelled Line i
\* shows the result of line i, and the notification and the increment of
\* totalOps happen exactly once, after the item of every line is appended.
C27_BatchAttribution ==
    /\ \A j \in 1..Len(batchItems) :
          batchItems[j].result = ResultOfLine(batchLines[batchItems[j].index])
    /\ notifications = totalOps
    /\ notifications = (IF batchPc = "done" THEN 1 ELSE 0)
    /\ batchPc = "done" =>
          /\ Len(batchItems) = Len(batchLines)
          /\ \A i \in 1..Len(batchLines) :
                \E j \in 1..Len(batchItems) : batchItems[j].index = i

(***************************************************************************)
(* Properties of the history.                                              *)
(***************************************************************************)
\* at most 20 items, the most recent first, each input and output of at
\* most 100 characters
HistoryWellFormed(h) ==
    /\ Len(h) <= 20
    /\ \A j, k \in 1..Len(h) : j < k => h[j].id >= h[k].id
    /\ \A j \in 1..Len(h) : Len(h[j].input) <= 100 /\ Len(h[j].output) <= 100

\* the first 100 characters of a text
First100(text) == [j \in 1..(IF Len(text) < 100 THEN Len(text) ELSE 100) |->
                      text[j]]

\* C30: through every call of addToHistory and clearHistory the history
\* holds at most 20 items, the most recent first, with inputs and outputs of
\* at most 100 characters; a call of addToHistory puts the new item, with
\* its texts cut to their first 100 characters, in front of the items there
\* were, and when there were 20 drops the last (oldest) of them and no
\* other; clearHistory leaves the history empty.
C30_HistoryBound ==
    [][/\ HistoryWellFormed(history)
       /\ HistoryWellFormed(history')
       /\ historyCall'.op = "add" =>
             /\ history' # <<>>
             /\ history'[1].input = First100(historyCall'.input)
             /\ history'[1].output = First100(historyCall'.output)
             /\ Len(history') = (IF Len(history) = 20 THEN 20
                                 ELSE Len(history) + 1)
             /\ \A j \in 2..Len(history') : history'[j] = history[j - 1]
       /\ historyCall'.op = "clear" => history' = <<>>]_vars

\* an item with an input of 101 characters was added to a history of 20
\* items: it is kept with 100 characters and the history still holds 20
C30_Witness ==
    /\ historyCall.op = "add"
    /\ Len(historyCall.input) = 101
    /\ Len(history) = 20
    /\ Len(history[1].input) = 100
    /\ history[20].id = 2
    /\ historyCalls = 2

====
